---- MODULE Spec2Model ----
(***************************************************************************)
(* Deep Search: the research orchestrator (POST handler of the deep-search *)
(* route, the variant that persists research_plan_links), the event stream *)
(* it writes, the client hook that folds the stream (handleServerEvent)    *)
(* and the recovery path (recoverFromDatabase).                            *)
(*                                                                         *)
(* Conventions of the model                                                *)
(*  - a JS value that may be null/undefined is Null or Some(v);            *)
(*  - a text (report content, chunks) is a sequence of tokens, '' is <<>>, *)
(*    string concatenation is \o;                                          *)
(*  - a template string is the record Fmt(template, number, string);       *)
(*  - a relevance 0..1 is an integer number of hundredths;                 *)
(*  - timestamps and random ids are left out (they carry no control flow); *)
(*  - one action is the code between two awaits of the async handler.      *)
(***************************************************************************)
EXTENDS Integers, Sequences, FiniteSets, TLC

VARIABLES
  pc,                  \* the await the POST handler is suspended at ("done": returned)
  frames,              \* every frame enqueued on the stream so far, in order
  closeCount,          \* number of controller.close() calls
  assistantMessageId,  \* Null until the insert returned a row
  currentProgress,
  currentStatus,
  researchPlan,        \* Null until createResearchPlan returned
  planLinksData,       \* the snapshot object mutated in place by the run
  searchResults,
  analysisResults,
  allSources,
  reportContent,
  db,                  \* the messages row of this run (Null: no row)
  state,               \* the hook's DeepSearchState of the live observer
  delivered,           \* number of frames the live observer has handled
  recovered,           \* state of an observer that reloaded (Null: none)
  request,             \* the JSON body of the POST request
  response,            \* the Response POST returned (Null: none yet)
  cancelled,           \* the consumer has cancelled the response stream
  wire,                \* lines of an event stream handed to the read loop
  unread,              \* text of the response body the reader has not returned yet
  buffer,              \* the read loop's buffer: the incomplete last line
  handed,              \* frames the read loop over text chunks passed to handleServerEvent
  stopped              \* "no", or which of stopDeepSearch ("stop") / resetDeepSearch ("reset") was called

orchVars == <<pc, frames, closeCount, assistantMessageId, currentProgress,
              currentStatus, researchPlan, planLinksData, searchResults,
              analysisResults, allSources, reportContent, db>>
vars == <<pc, frames, closeCount, assistantMessageId, currentProgress,
          currentStatus, researchPlan, planLinksData, searchResults,
          analysisResults, allSources, reportContent, db, state, delivered,
          recovered, request, response, cancelled, wire,
          unread, buffer, handed, stopped>>
envVars == <<request, response, cancelled, wire>>
readVars == <<unread, buffer, handed, stopped>>

----------------------------------------------------------------------------
(* Bounds of the model *)

\* frames the live observer may be behind when the orchestrator resumes
MaxPending == 1
\* text fragments the report stream may produce
MaxChunks == 2
\* lines of an arbitrary stream handed to the read loop
MaxWire == 3
\* frames of a response body that is read in chunks of any size
MaxFrames == 3

----------------------------------------------------------------------------
(* JS values *)

Null == [isNull |-> TRUE]
Some(v) == [isNull |-> FALSE, v |-> v]
Fmt(t, n, s) == [fmt |-> t, n |-> n, s |-> s]

Min(a, b) == IF a < b THEN a ELSE b
Max(a, b) == IF a > b THEN a ELSE b

\* Math.round(n / d) for n >= 0, d > 0
Round(n, d) == (2 * n + d) \div (2 * d)

\* Array.prototype.slice(0, k)
Slice(s, k) == SubSeq(s, 1, Min(Len(s), k))

\* F applied to the value of x: TLC evaluates an operator's argument each
\* time the operator reads it, Call binds it to its value first
Call(F(_), x) == CHOOSE y \in {F(v) : v \in {x}} : TRUE

\* Array.prototype.map
MapSeq(F(_), s) == [k \in 1..Len(s) |-> F(s[k])]

\* the elements of s at the indices that satisfy Keep, in order
\* (Array.prototype.filter on the index)
FilterIndex(s, Keep(_)) ==
  LET kept == SelectSeq([k \in 1..Len(s) |-> k], Keep)
  IN [i \in 1..Len(kept) |-> s[kept[i]]]

RECURSIVE SumSeq(_)
SumSeq(s) == IF s = <<>> THEN 0 ELSE Head(s) + SumSeq(Tail(s))

Range(s) == {s[k] : k \in 1..Len(s)}

----------------------------------------------------------------------------
(* new URL(url).hostname: the hostname of an absolute URL; any other       *)
(* string makes the URL constructor throw a TypeError.                     *)

HostTable ==
  [u \in {"https://a.com/1", "https://a.com/2", "https://news.b.org/1",
          "https://c.edu/1", "https://d.io/1"} |->
     CASE u = "https://a.com/1" -> "a.com"
       [] u = "https://a.com/2" -> "a.com"
       [] u = "https://news.b.org/1" -> "news.b.org"
       [] u = "https://c.edu/1" -> "c.edu"
       [] u = "https://d.io/1" -> "d.io"]

ValidURL(u) == u \in DOMAIN HostTable
hostname(u) == HostTable[u]

\* String.prototype.includes over the lower-cased strings of the model
Includes(s, w) ==
  <<s, w>> \in {<<"news.b.org", "news">>, <<"c.edu", "edu">>,
                <<"alpha study", "study">>, <<"gamma report", "report">>}

toLowerCase(s) ==
  CASE s = "Alpha study" -> "alpha study"
    [] s = "Gamma report" -> "gamma report"
    [] s = "Alpha again" -> "alpha again"
    [] s = "Beta" -> "beta"
    [] s = "Delta" -> "delta"
    [] OTHER -> s

categorizeSource(title, url) ==
  LET domain == toLowerCase(hostname(url))
      titleLower == toLowerCase(title)
  IN  IF Includes(domain, "academic") \/ Includes(domain, "edu")
         \/ Includes(domain, "research") THEN "academic"
      ELSE IF Includes(domain, "news") \/ Includes(domain, "bbc")
         \/ Includes(domain, "reuters") THEN "news"
      ELSE IF Includes(domain, "gov") \/ Includes(domain, "official")
         THEN "official"
      ELSE IF Includes(titleLower, "study") \/ Includes(titleLower, "research")
         THEN "research"
      ELSE IF Includes(titleLower, "analysis") \/ Includes(titleLower, "report")
         THEN "analysis"
      ELSE "general"

----------------------------------------------------------------------------
(* Inputs: what the external services may answer *)

NumSearches == 5
NumAnalyses == 5

\* the bodies req.json() may yield: topic and sessionId present, empty or
\* absent (undefined)
RequestBodies ==
  [topic : {Null, Some(""), Some("topic")},
   sessionId : {Null, Some(""), Some("s1")}]

\* the object generateObject returns against ResearchPlanSchema
\* (the priorities are chosen so that maxResults differs between the searches)
ThePlan ==
  [searches |-> [k \in 1..NumSearches |->
                   [priority |-> <<5, 3, 1, 4, 2>>[k], query |-> <<"query", k>>,
                    type |-> "web"]],
   analyses |-> [k \in 1..NumAnalyses |->
                   [type |-> <<"type", k>>, description |-> <<"description", k>>,
                    priority |-> k]]]

PlanReplies ==
  {[threw |-> TRUE, message |-> "plan generation failed"],
   [threw |-> FALSE, object |-> ThePlan]}

R(title, url) == [title |-> title, url |-> url, content |-> "text"]

\* what tvly.search may answer (before the provider cuts it to maxResults)
SearchReplies ==
  {[threw |-> TRUE, message |-> "search failed"],
   [threw |-> FALSE,
    results |-> <<R("Beta", "https://news.b.org/1"),
                  R("Alpha study", "https://a.com/1"),
                  R("", "https://a.com/2"),
                  R("Alpha again", "https://a.com/1"),
                  R("Delta", "https://d.io/1")>>]}

K(title, url, relevance) == [title |-> title, url |-> url, relevance |-> relevance]

\* the object generateObject returns against AnalysisResultSchema
AnalysisReplies ==
  {[threw |-> TRUE, message |-> "analysis failed"],
   [threw |-> FALSE,
    object |-> [findings |-> <<"insight 1", "insight 2", "insight 3">>,
                key_sources |-> <<K("Gamma report", "https://c.edu/1", 90),
                                  K("Alpha study", "https://a.com/1", 0)>>]],
   [threw |-> FALSE,
    object |-> [findings |-> <<>>,
                key_sources |-> <<K("", "https://a.com/2", 60),
                                  K("No url", "", 50),
                                  K("Relative", "c.edu/paper", 40)>>]]}

\* the tokens streamText may produce
ChunkTokens == {"a", "b"}

----------------------------------------------------------------------------
(* The stream *)

\* faulty variant: step_complete frames are not enqueued
sendUpdateDropsStepComplete(fs, type, data) ==
  IF type = "step_complete" THEN fs
  ELSE Append(fs, [type |-> type, data |-> data])

\* sendUpdate: one frame {type, data} enqueued on the controller
sendUpdate(fs, type, data) == Append(fs, [type |-> type, data |-> data])

StepStart(step, title, description) ==
  [step |-> step, title |-> title, description |-> description,
   status |-> "running"]

StepComplete(step, title, description, data) ==
  [step |-> step, title |-> title, description |-> description,
   status |-> "completed", data |-> data]

SearchTitle(n) == Fmt("Web Search %n", n, <<>>)
AnalysisTitle(n, type) == Fmt("Analysis %n: %s", n, type)
PlanningTitle == Fmt("Research Planning", 0, <<>>)
ReportTitle == Fmt("Final Report Generation", 0, <<>>)

----------------------------------------------------------------------------
(* Helpers of the POST handler *)

RECURSIVE Concat(_)
\* the elements of a sequence of sequences, in order (nested forEach)
Concat(ss) == IF ss = <<>> THEN <<>> ELSE Head(ss) \o Concat(Tail(ss))

\* [...new Set([...acc, ...xs])]: a Set keeps the first occurrence of every
\* element, in insertion order
Dedup(acc, xs) ==
  LET all == acc \o xs
      First(k) == \A j \in 1..(k - 1) : all[j] # all[k]
  IN FilterIndex(all, First)

\* faulty variant: the count grows with the priority number
maxResultsGrowing(priority) == Max(4, Min(3 + priority, 12))

\* maxResults: Math.max(4, Math.min(8 - priority, 12))
maxResults(priority) == Max(4, Min(8 - priority, 12))

\* executeWebSearch: the provider's failure is caught and becomes an empty
\* result carrying an error; the provider returns at most maxResults results
executeWebSearch(query, depth, priority, reply) ==
  IF reply.threw
    THEN [type |-> "web", query |-> [query |-> query, priority |-> priority],
          results |-> <<>>, error |-> Some(reply.message)]
    ELSE [type |-> "web", query |-> [query |-> query, priority |-> priority],
          results |-> LET Norm(r) == [source |-> "web", title |-> r.title,
                                      url |-> r.url, content |-> r.content]
                      IN MapSeq(Norm, Slice(reply.results, maxResults(priority))),
          error |-> Null]

\* searchLinkData of one search step
SearchLinkData(stepNumber, search, result) ==
  [step |-> stepNumber,
   query |-> search.query,
   priority |-> search.priority,
   links |-> LET Link(r) == [title |-> r.title, url |-> r.url, relevance |-> 80,
                             domain |-> hostname(r.url)]
             IN MapSeq(Link, result.results),
   status |-> "completed",
   result_count |-> Len(result.results)]

\* faulty variant: total_links counts the search records instead of their links
PushSearchCountsRecords(pl, stepNumber, search, result) ==
  [pl EXCEPT
     !.searches = Append(@, SearchLinkData(stepNumber, search, result)),
     !.total_links = @ + 1,
     !.unique_domains =
        LET Host(r) == hostname(r.url)
        IN Dedup(@, MapSeq(Host, result.results))]

\* faulty variant: the new search record is put in front of the list
PushSearchInFront(pl, stepNumber, search, result) ==
  [pl EXCEPT
     !.searches = <<SearchLinkData(stepNumber, search, result)>> \o @,
     !.total_links = @ + Len(result.results),
     !.unique_domains =
        LET Host(r) == hostname(r.url)
        IN Dedup(@, MapSeq(Host, result.results))]

\* faulty variant: the new domains are appended without the Set
PushSearchAppendsDomains(pl, stepNumber, search, result) ==
  [pl EXCEPT
     !.searches = Append(@, SearchLinkData(stepNumber, search, result)),
     !.total_links = @ + Len(result.results),
     !.unique_domains =
        LET Host(r) == hostname(r.url)
        IN @ \o MapSeq(Host, result.results)]

\* planLinksData after the search step's push, total_links += and domain union
PushSearch(pl, stepNumber, search, result) ==
  [pl EXCEPT
     !.searches = Append(@, SearchLinkData(stepNumber, search, result)),
     !.total_links = @ + Len(result.results),
     !.unique_domains =
        LET Host(r) == hostname(r.url)
        IN Dedup(@, MapSeq(Host, result.results))]

\* faulty variant: the share of the search phase is taken over the searches
\* alone
SearchProgressOverSearches(stepNumber, plan) ==
  Round(stepNumber * 70, Len(plan.searches))

\* progress after search step stepNumber: Math.round(stepNumber / total * 70)
SearchProgress(stepNumber, plan) ==
  Round(stepNumber * 70, 5 + Len(plan.analyses))

\* faulty variant: the base of 70 of the search phase is forgotten
AnalysisProgressNoBase(i, plan) == Round((i + 1) * 25, Len(plan.analyses))

\* progress after the (i+1)-th analysis: Math.round(70 + (i+1)/len * 25)
AnalysisProgress(i, plan) == 70 + Round((i + 1) * 25, Len(plan.analyses))

\* source.relevance || 0.7
RelevanceOr70(rel) == IF rel = 0 THEN 70 ELSE rel

\* title || 'Untitled'
TitleOrUntitled(t) == IF t = "" THEN "Untitled" ELSE t

\* analysisLinkData of one analysis step
AnalysisLinkData(stepNumber, analysis, result) ==
  [step |-> stepNumber,
   type |-> analysis.type,
   description |-> analysis.description,
   key_sources |-> LET Key(k) == [title |-> k.title, url |-> k.url,
                                  relevance |-> RelevanceOr70(k.relevance)]
                   IN MapSeq(Key, result.key_sources),
   findings_count |-> Len(result.findings),
   status |-> "completed"]

\* faulty variant: the completion rate is the share of the analyses still
\* to do
PushAnalysisRateOfRest(pl, i, plan, analysis, result) ==
  [pl EXCEPT
     !.analyses = Append(@, AnalysisLinkData(7 + i, analysis, result)),
     !.completion_rate =
        Round((Len(plan.analyses) - (i + 1)) * 100, Len(plan.analyses))]

\* planLinksData after the analysis step's push and completion_rate
PushAnalysis(pl, i, plan, analysis, result) ==
  [pl EXCEPT
     !.analyses = Append(@, AnalysisLinkData(7 + i, analysis, result)),
     !.completion_rate = Round((i + 1) * 100, Len(plan.analyses))]

\* the forEach loops over sourceMap / allSources: walking the items in
\* order, a source is pushed when its url is non-empty and not yet in
\* sourceMap, that is when no earlier item has its url
AddSources(items) ==
  LET New(k) == /\ items[k].url # ""
                /\ \A j \in 1..(k - 1) : items[j].url # items[k].url
      Source(x) == [title |-> TitleOrUntitled(x.title), url |-> x.url,
                    relevance |-> x.relevance]
  IN MapSeq(Source, FilterIndex(items, New))

\* lines 300-335: the search results first, then the key sources
CollectSources(sr, ar) ==
  LET FromSearch(r) == [title |-> r.title, url |-> r.url, relevance |-> 80]
      SearchItems(res) == MapSeq(FromSearch, res.results)
      FromKey(k) == [title |-> k.title, url |-> k.url,
                     relevance |-> RelevanceOr70(k.relevance)]
      KeyItems(a) == MapSeq(FromKey, a.result.key_sources)
  IN Call(AddSources,
          Concat(MapSeq(SearchItems, sr)) \o Concat(MapSeq(KeyItems, ar)))

\* citation_sources of the final update; new URL(source.url) throws on a
\* url that is not absolute
CitationsThrow(sources) == \E k \in 1..Len(sources) : ~ValidURL(sources[k].url)

CitationSources(sources) ==
  [k \in 1..Len(sources) |->
     [id |-> k,
      title |-> sources[k].title,
      url |-> sources[k].url,
      domain |-> hostname(sources[k].url),
      relevance |-> RelevanceOr70(sources[k].relevance),
      category |-> categorizeSource(sources[k].title, sources[k].url)]]

\* updateMessageInDatabase: the columns named in updates replace the row's
updateMessageInDatabase(row, updates) ==
  IF row = Null THEN row
  ELSE Some([c \in DOMAIN row.v |->
               IF c \in DOMAIN updates THEN updates[c] ELSE row.v[c]])

----------------------------------------------------------------------------
(* The POST handler, one action per stretch of code between two awaits *)

\* the orchestrator resumes only while the observer is at most MaxPending
\* frames behind (a bound of the model, the stream itself never blocks)
CanRun == Len(frames) - delivered <= MaxPending

\* faulty variant: the catch block reports the error and the handler resumes
\* at the await that failed
CatchResumes(fs, message) ==
  /\ frames' = sendUpdate(fs, "error", [message |-> message, step |-> "Unknown"])
  /\ closeCount' = closeCount
  /\ pc' = pc

\* faulty variant: the catch block swallows the exception without an error frame
CatchSilently(fs, message) ==
  /\ frames' = fs
  /\ closeCount' = closeCount + 1
  /\ pc' = "done"

\* catch (error) { sendUpdate('error', ...) } finally { controller.close() }
CatchFinally(fs, message) ==
  /\ frames' = sendUpdate(fs, "error", [message |-> message, step |-> "Unknown"])
  /\ closeCount' = closeCount + 1
  /\ pc' = "done"

\* faulty variant: the stream is closed at the end of the try block and again in
\* the finally block
FinallyClosesTwice(fs) ==
  /\ frames' = fs
  /\ closeCount' = closeCount + 2
  /\ pc' = "done"

\* finally { controller.close() } at the end of the try block
Finally(fs) ==
  /\ frames' = fs
  /\ closeCount' = closeCount + 1
  /\ pc' = "done"

\* the head of the analysis loop with n analyses done, then step 12 up to
\* the await of streamText
AnalysisLoop(fs, n, plan, sr, ar, sources) ==
  IF n < Len(plan.analyses)
    THEN [pc |-> "analyzeResults",
          frames |-> sendUpdate(fs, "step_start",
                        StepStart(7 + n,
                                  AnalysisTitle(n + 1, plan.analyses[n + 1].type),
                                  Fmt("%s", 0, plan.analyses[n + 1].description))),
          currentStatus |-> "analyzing",
          allSources |-> sources]
    ELSE [pc |-> "streamText",
          frames |-> sendUpdate(fs, "step_start",
                        StepStart(12, ReportTitle,
                                  Fmt("Generating comprehensive report with citations...",
                                      0, <<>>))),
          currentStatus |-> "analyzing",
          allSources |-> CollectSources(sr, ar)]

\* faulty variant: the step number of a search counts the results found so far
SearchLoopCountsResults(fs, n, plan, sr, ar, sources) ==
  IF n < Len(plan.searches)
    THEN [pc |-> "executeWebSearch",
          frames |-> sendUpdate(fs, "step_start",
                        StepStart(LET Count(r) == Len(r.results)
                                  IN 2 + SumSeq(MapSeq(Count, sr)),
                                  SearchTitle(n + 1),
                                  Fmt("Searching: %s", 0, plan.searches[n + 1].query))),
          currentStatus |-> "searching",
          allSources |-> sources]
    ELSE AnalysisLoop(fs, 0, plan, sr, ar, sources)

\* faulty variant: the search loop stops one search early
SearchLoopShort(fs, n, plan, sr, ar, sources) ==
  IF n < Len(plan.searches) - 1
    THEN [pc |-> "executeWebSearch",
          frames |-> sendUpdate(fs, "step_start",
                        StepStart(n + 2, SearchTitle(n + 1),
                                  Fmt("Searching: %s", 0, plan.searches[n + 1].query))),
          currentStatus |-> "searching",
          allSources |-> sources]
    ELSE AnalysisLoop(fs, 0, plan, sr, ar, sources)

\* faulty variant: the next search is started together with the one after it
SearchLoopTwoAtOnce(fs, n, plan, sr, ar, sources) ==
  IF n + 1 < Len(plan.searches)
    THEN [pc |-> "executeWebSearch",
          frames |-> sendUpdate(
                       sendUpdate(fs, "step_start",
                         StepStart(n + 2, SearchTitle(n + 1),
                                   Fmt("Searching: %s", 0, plan.searches[n + 1].query))),
                       "step_start",
                       StepStart(n + 3, SearchTitle(n + 2),
                                 Fmt("Searching: %s", 0, plan.searches[n + 2].query))),
          currentStatus |-> "searching",
          allSources |-> sources]
    ELSE AnalysisLoop(fs, 0, plan, sr, ar, sources)

\* the head of the search loop with n searches done
SearchLoop(fs, n, plan, sr, ar, sources) ==
  IF n < Len(plan.searches)
    THEN [pc |-> "executeWebSearch",
          frames |-> sendUpdate(fs, "step_start",
                        StepStart(n + 2, SearchTitle(n + 1),
                                  Fmt("Searching: %s", 0, plan.searches[n + 1].query))),
          currentStatus |-> "searching",
          allSources |-> sources]
    ELSE AnalysisLoop(fs, 0, plan, sr, ar, sources)

\* !v of a string that may be undefined
Falsy(v) == IF v = Null THEN TRUE ELSE v.v = ""

\* faulty variant: only the topic is validated
RejectsOnTopicOnly(topic, sessionId) == Falsy(topic)

\* if (!topic || !sessionId)
Rejects(topic, sessionId) == Falsy(topic) \/ Falsy(sessionId)

\* lines 48-55: the body has arrived and lacks topic or sessionId; POST
\* returns the 400 response and nothing else happens
RejectRequest ==
  /\ pc = "start"
  /\ Rejects(request.topic, request.sessionId)
  /\ response' = Some([status |-> 400, body |-> "Topic and sessionId are required"])
  /\ pc' = "rejected"
  /\ UNCHANGED <<frames, closeCount, assistantMessageId, currentProgress,
                 currentStatus, researchPlan, planLinksData, searchResults,
                 analysisResults, allSources, reportContent, db, state,
                 delivered, recovered, request, cancelled, wire, readVars>>

\* lines 48-97: the body has arrived with topic and sessionId; the stream is
\* constructed, start() runs up to await createResearchPlan (step_start of
\* step 1 is enqueued) and POST returns the streaming response
StartRun ==
  /\ pc = "start"
  /\ ~Rejects(request.topic, request.sessionId)
  /\ frames' = sendUpdate(frames, "step_start",
                 StepStart(1, PlanningTitle,
                           Fmt("Creating comprehensive research plan...", 0, <<>>)))
  /\ pc' = "createResearchPlan"
  /\ response' = Some([status |-> 200, body |-> "stream"])
  /\ UNCHANGED <<closeCount, assistantMessageId, currentProgress, currentStatus,
                 researchPlan, planLinksData, searchResults, analysisResults,
                 allSources, reportContent, db, state, delivered, recovered,
                 request, cancelled, wire, readVars>>

InitialPlanLinks ==
  [plan_id |-> "plan", searches |-> <<>>, analyses |-> <<>>, total_links |-> 0,
   unique_domains |-> <<>>, completion_rate |-> 0]

\* lines 97-138: the plan arrives (or createResearchPlan throws), step 1
\* completes, the plan is sent, then await of the insert
PlanDone ==
  /\ pc = "createResearchPlan"
  /\ CanRun
  /\ ~cancelled
  /\ \E reply \in PlanReplies :
       IF reply.threw
         THEN /\ CatchFinally(frames, reply.message)
              /\ UNCHANGED <<researchPlan, planLinksData>>
         ELSE /\ researchPlan' = Some(reply.object)
              /\ planLinksData' = Some(InitialPlanLinks)
              /\ frames' =
                   sendUpdate(
                     sendUpdate(frames, "step_complete",
                       StepComplete(1, PlanningTitle,
                         Fmt("Research plan created successfully", 0, <<>>), Null)),
                     "research_plan",
                     [plan |-> reply.object,
                      totalSteps |-> 5 + Len(reply.object.analyses)])
              /\ pc' = "insert"
              /\ UNCHANGED closeCount
  /\ UNCHANGED <<assistantMessageId, currentProgress, currentStatus,
                 searchResults, analysisResults, allSources, reportContent, db,
                 state, delivered, recovered,
                 envVars, readVars>>

InsertedRow ==
  [content |-> <<>>,
   research_plan |-> researchPlan,
   research_plan_links |-> planLinksData,
   research_status |-> "planning",
   research_progress |-> 10,
   search_results |-> Null,
   analysis_results |-> Null,
   research_steps |-> Null,
   citation_sources |-> Null]

\* lines 124-163: the insert returns a row (or an error, or throws: both are
\* only logged), then the first search step starts
InsertDone ==
  /\ pc = "insert"
  /\ CanRun
  /\ ~cancelled
  /\ \E ok \in BOOLEAN :
       /\ assistantMessageId' = IF ok THEN Some("m1") ELSE Null
       /\ db' = IF ok THEN Some(InsertedRow) ELSE Null
  /\ \E next \in {SearchLoop(frames, 0, researchPlan.v, <<>>, <<>>, allSources)} :
        /\ pc' = next.pc
        /\ frames' = next.frames
        /\ currentStatus' = next.currentStatus
        /\ allSources' = next.allSources
  /\ searchResults' = <<>>
  /\ UNCHANGED <<closeCount, currentProgress, researchPlan, planLinksData,
                 analysisResults, reportContent, state, delivered, recovered,
                 envVars, readVars>>


\* what supabase may answer to an update: applied, or an error / exception
\* that updateMessageInDatabase only logs
UpdateReplies == {TRUE}

\* lines 165-218: the search result arrives, the snapshot grows, step_complete
\* and progress are sent, then await of the database update (when there is a
\* message row); without a row the loop goes on to the next await
SearchDone ==
  /\ pc = "executeWebSearch"
  /\ CanRun
  /\ ~cancelled
  /\ \E reply \in SearchReplies :
     \E result \in {executeWebSearch(
                        researchPlan.v.searches[Len(searchResults) + 1].query,
                        "basic",
                        researchPlan.v.searches[Len(searchResults) + 1].priority,
                        reply)} :
       LET i == Len(searchResults)
           plan == researchPlan.v
           search == plan.searches[i + 1]
           stepNumber == i + 2
           sr == Append(searchResults, result)
           count == Len(result.results)
           progress == SearchProgress(stepNumber, plan)
           Source(r) == [title |-> r.title, url |-> r.url]
           fs == sendUpdate(
                   sendUpdate(frames, "step_complete",
                     StepComplete(stepNumber, SearchTitle(i + 1),
                       Fmt("Found %n sources", count, <<>>),
                       Some([query |-> search.query,
                             resultCount |-> count,
                             sources |-> MapSeq(Source, Slice(result.results, 4))]))),
                   "progress", [progress |-> progress])
       IN /\ searchResults' = sr
          /\ IF \E k \in 1..count : ~ValidURL(result.results[k].url)
               THEN /\ CatchFinally(frames, "Invalid URL")
                    /\ UNCHANGED <<planLinksData, currentProgress, currentStatus,
                                   allSources>>
               ELSE /\ planLinksData' =
                         Some(PushSearch(planLinksData.v, stepNumber, search, result))
                    /\ currentProgress' = progress
                    /\ UNCHANGED closeCount
                    /\ IF assistantMessageId # Null
                         THEN /\ pc' = "updateSearch"
                              /\ frames' = fs
                              /\ UNCHANGED <<currentStatus, allSources>>
                         ELSE \E next \in {SearchLoop(fs, i + 1, plan, sr,
                                                        analysisResults, allSources)} :
                                 /\ pc' = next.pc
                                 /\ frames' = next.frames
                                 /\ currentStatus' = next.currentStatus
                                 /\ allSources' = next.allSources
  /\ UNCHANGED <<assistantMessageId, researchPlan, analysisResults, reportContent,
                 db, state, delivered, recovered,
                 envVars, readVars>>

\* lines 211-219: the update of the search step returns, next iteration
SearchSaved ==
  /\ pc = "updateSearch"
  /\ CanRun
  /\ ~cancelled
  /\ \E ok \in UpdateReplies :
       db' = IF ok
               THEN updateMessageInDatabase(db,
                      [search_results |-> Some(searchResults),
                       research_plan_links |-> planLinksData,
                       research_status |-> currentStatus,
                       research_progress |-> currentProgress])
               ELSE db
  /\ \E next \in {SearchLoop(frames, Len(searchResults), researchPlan.v,
                               searchResults, analysisResults, allSources)} :
        /\ pc' = next.pc
        /\ frames' = next.frames
        /\ currentStatus' = next.currentStatus
        /\ allSources' = next.allSources
  /\ UNCHANGED <<closeCount, assistantMessageId, currentProgress, researchPlan,
                 planLinksData, searchResults, analysisResults, reportContent,
                 state, delivered, recovered,
                 envVars, readVars>>

\* lines 238-288: the analysis arrives (or analyzeResults throws), the
\* snapshot grows, step_complete and progress are sent, then await of the
\* database update (when there is a message row)
AnalyzeDone ==
  /\ pc = "analyzeResults"
  /\ CanRun
  /\ ~cancelled
  /\ \E reply \in AnalysisReplies :
       IF reply.threw
         THEN /\ CatchFinally(frames, reply.message)
              /\ UNCHANGED <<analysisResults, planLinksData, currentProgress,
                             currentStatus, allSources>>
         ELSE
           LET i == Len(analysisResults)
               plan == researchPlan.v
               analysis == plan.analyses[i + 1]
               stepNumber == 7 + i
               result == reply.object
               progress == AnalysisProgress(i, plan)
               fs == sendUpdate(
                       sendUpdate(frames, "step_complete",
                         StepComplete(stepNumber,
                           AnalysisTitle(i + 1, analysis.type),
                           Fmt("Analysis completed - %n key findings",
                               Len(result.findings), <<>>),
                           Some([type |-> analysis.type,
                                 findingsCount |-> Len(result.findings),
                                 insights |-> Slice(result.findings, 2),
                                 keyLinks |-> Slice(result.key_sources, 4)]))),
                       "progress", [progress |-> progress])
           IN \E ar \in {Append(analysisResults,
                              [type |-> analysis.type,
                               description |-> analysis.description,
                               result |-> result])} :
              /\ analysisResults' = ar
              /\ planLinksData' =
                   Some(PushAnalysis(planLinksData.v, i, plan, analysis, result))
              /\ currentProgress' = progress
              /\ UNCHANGED closeCount
              /\ IF assistantMessageId # Null
                   THEN /\ pc' = "updateAnalysis"
                        /\ frames' = fs
                        /\ UNCHANGED <<currentStatus, allSources>>
                   ELSE \E next \in {AnalysisLoop(fs, i + 1, plan, searchResults,
                                                    ar, allSources)} :
                           /\ pc' = next.pc
                           /\ frames' = next.frames
                           /\ currentStatus' = next.currentStatus
                           /\ allSources' = next.allSources
  /\ UNCHANGED <<assistantMessageId, researchPlan, searchResults, reportContent,
                 db, state, delivered, recovered,
                 envVars, readVars>>

\* lines 280-298: the update of the analysis step returns, next iteration
AnalysisSaved ==
  /\ pc = "updateAnalysis"
  /\ CanRun
  /\ ~cancelled
  /\ \E ok \in UpdateReplies :
       db' = IF ok
               THEN updateMessageInDatabase(db,
                      [analysis_results |-> Some(analysisResults),
                       research_plan_links |-> planLinksData,
                       research_status |-> currentStatus,
                       research_progress |-> currentProgress])
               ELSE db
  /\ \E next \in {AnalysisLoop(frames, Len(analysisResults), researchPlan.v,
                                 searchResults, analysisResults, allSources)} :
        /\ pc' = next.pc
        /\ frames' = next.frames
        /\ currentStatus' = next.currentStatus
        /\ allSources' = next.allSources
  /\ UNCHANGED <<closeCount, assistantMessageId, currentProgress, researchPlan,
                 planLinksData, searchResults, analysisResults, reportContent,
                 state, delivered, recovered,
                 envVars, readVars>>


\* what streamText may answer: a text stream, or an exception
StreamReplies == {[threw |-> FALSE], [threw |-> TRUE, message |-> "stream failed"]}

\* lines 388-407: streamText returns (or throws); step 12 is reported
\* complete and progress 95 is sent before the first fragment is awaited
StreamTextDone ==
  /\ pc = "streamText"
  /\ CanRun
  /\ ~cancelled
  /\ \E reply \in StreamReplies :
       IF reply.threw
         THEN /\ CatchFinally(frames, reply.message)
              /\ UNCHANGED <<currentProgress, reportContent>>
         ELSE /\ frames' =
                   sendUpdate(
                     sendUpdate(frames, "step_complete",
                       StepComplete(12, ReportTitle,
                         Fmt("Report generated successfully", 0, <<>>), Null)),
                     "progress", [progress |-> 95])
              /\ currentProgress' = 95
              /\ reportContent' = <<>>
              /\ pc' = "textStream"
              /\ UNCHANGED closeCount
  /\ UNCHANGED <<assistantMessageId, currentStatus, researchPlan, planLinksData,
                 searchResults, analysisResults, allSources, db, state,
                 delivered, recovered,
                 envVars, readVars>>

\* faulty variant: the fragment replaces the text collected so far
AppendChunkReplaces(content, chunk) == chunk

\* reportContent += chunk
AppendChunk(content, chunk) == content \o chunk

\* lines 407-410: one fragment of the report arrives and is forwarded
ReportChunk ==
  /\ pc = "textStream"
  /\ CanRun
  /\ ~cancelled
  /\ Len(reportContent) < MaxChunks
  /\ \E tok \in ChunkTokens :
       /\ reportContent' = AppendChunk(reportContent, <<tok>>)
       /\ frames' = sendUpdate(frames, "report_chunk", [chunk |-> <<tok>>])
  /\ UNCHANGED <<pc, closeCount, assistantMessageId, currentProgress,
                 currentStatus, researchPlan, planLinksData, searchResults,
                 analysisResults, allSources, db, state, delivered, recovered,
                 envVars, readVars>>

\* line 407: the text stream fails while it is iterated
StreamThrows ==
  /\ pc = "textStream"
  /\ CanRun
  /\ ~cancelled
  /\ CatchFinally(frames, "stream failed")
  /\ UNCHANGED <<assistantMessageId, currentProgress, currentStatus,
                 researchPlan, planLinksData, searchResults, analysisResults,
                 allSources, reportContent, db, state, delivered, recovered,
                 envVars, readVars>>

\* lines 413-451: the text stream ends; report_complete, progress 100 and
\* status_change are sent; with a message row the snapshot is marked
\* complete and the arguments of the final update are built (new URL may
\* throw there), then await of that update
StreamEnds ==
  /\ pc = "textStream"
  /\ CanRun
  /\ ~cancelled
  /\ LET fs == sendUpdate(
                 sendUpdate(
                   sendUpdate(frames, "report_complete",
                     [fullReport |-> reportContent,
                      citationCount |-> Len(allSources),
                      sources |-> allSources]),
                   "progress", [progress |-> 100]),
                 "status_change", [status |-> "complete"])
     IN /\ currentProgress' = 100
        /\ currentStatus' = "complete"
        /\ IF assistantMessageId # Null
             THEN /\ planLinksData' =
                       Some([planLinksData.v EXCEPT !.completion_rate = 100])
                  /\ IF CitationsThrow(allSources)
                       THEN CatchFinally(fs, "Invalid URL")
                       ELSE /\ frames' = fs
                            /\ pc' = "updateFinal"
                            /\ UNCHANGED closeCount
             ELSE /\ Finally(fs)
                  /\ UNCHANGED planLinksData
  /\ UNCHANGED <<assistantMessageId, researchPlan, searchResults,
                 analysisResults, allSources, reportContent, db, state,
                 delivered, recovered,
                 envVars, readVars>>

\* lines 431-463: the final update returns; the stream is closed
FinalSaved ==
  /\ pc = "updateFinal"
  /\ CanRun
  /\ ~cancelled
  /\ \E ok \in UpdateReplies :
       db' = IF ok
               THEN updateMessageInDatabase(db,
                      [content |-> reportContent,
                       research_status |-> currentStatus,
                       research_progress |-> currentProgress,
                       research_plan_links |-> planLinksData,
                       research_steps |->
                         Some([planning |-> TRUE, searching |-> TRUE,
                               analyzing |-> TRUE, complete |-> TRUE]),
                       citation_sources |-> Some(CitationSources(allSources))])
               ELSE db
  /\ Finally(frames)
  /\ UNCHANGED <<assistantMessageId, currentProgress, currentStatus,
                 researchPlan, planLinksData, searchResults, analysisResults,
                 allSources, reportContent, state, delivered, recovered,
                 envVars, readVars>>

----------------------------------------------------------------------------
(* The consumer of the response stream goes away *)

\* the consumer cancels the stream it was given (the stream has no cancel
\* callback, start() is not told); from then on controller.enqueue and
\* controller.close throw a TypeError
ConsumerCancel ==
  /\ response # Null
  /\ response.v.status = 200
  /\ ~cancelled
  /\ pc # "done"
  /\ cancelled' = TRUE
  /\ UNCHANGED <<orchVars, state, delivered, recovered, request, response, wire,
                 readVars>>

\* sendUpdate throws inside the try block: the catch block's sendUpdate throws
\* as well, the finally block calls controller.close(), start() is over
Abort ==
  /\ frames' = frames
  /\ closeCount' = closeCount + 1
  /\ pc' = "done"

\* the continuation of an await after the consumer has cancelled: the code
\* runs up to the first sendUpdate, which throws
CancelledResume ==
  /\ cancelled
  /\ pc \in {"createResearchPlan", "insert", "executeWebSearch", "updateSearch",
             "analyzeResults", "updateAnalysis", "streamText", "textStream",
             "updateFinal"}
  /\ Abort
  /\ CASE pc = "createResearchPlan" ->
            \* lines 97-112
            /\ \E reply \in PlanReplies :
                 IF reply.threw
                   THEN UNCHANGED <<researchPlan, planLinksData>>
                   ELSE /\ researchPlan' = Some(reply.object)
                        /\ planLinksData' = Some(InitialPlanLinks)
            /\ UNCHANGED <<assistantMessageId, searchResults, analysisResults,
                           reportContent, db>>
       [] pc = "insert" ->
            \* lines 124-158
            /\ \E ok \in BOOLEAN :
                 /\ assistantMessageId' = IF ok THEN Some("m1") ELSE Null
                 /\ db' = IF ok THEN Some(InsertedRow) ELSE Null
            /\ UNCHANGED <<researchPlan, planLinksData, searchResults,
                           analysisResults, reportContent>>
       [] pc = "executeWebSearch" ->
            \* lines 165-191
            /\ \E reply \in SearchReplies :
               \E result \in {executeWebSearch(
                                researchPlan.v.searches[Len(searchResults) + 1].query,
                                "basic",
                                researchPlan.v.searches[Len(searchResults) + 1].priority,
                                reply)} :
                 /\ searchResults' = Append(searchResults, result)
                 /\ planLinksData' =
                      IF \E k \in 1..Len(result.results) :
                           ~ValidURL(result.results[k].url)
                        THEN planLinksData
                        ELSE Some(PushSearch(planLinksData.v, Len(searchResults) + 2,
                                   researchPlan.v.searches[Len(searchResults) + 1],
                                   result))
            /\ UNCHANGED <<assistantMessageId, researchPlan, analysisResults,
                           reportContent, db>>
       [] pc = "updateSearch" ->
            \* lines 211-218, then line 158
            /\ \E ok \in UpdateReplies :
                 db' = IF ok
                         THEN updateMessageInDatabase(db,
                                [search_results |-> Some(searchResults),
                                 research_plan_links |-> planLinksData,
                                 research_status |-> currentStatus,
                                 research_progress |-> currentProgress])
                         ELSE db
            /\ UNCHANGED <<assistantMessageId, researchPlan, planLinksData,
                           searchResults, analysisResults, reportContent>>
       [] pc = "analyzeResults" ->
            \* lines 238-262
            /\ \E reply \in AnalysisReplies :
                 IF reply.threw
                   THEN UNCHANGED <<analysisResults, planLinksData>>
                   ELSE LET i == Len(analysisResults)
                            analysis == researchPlan.v.analyses[i + 1]
                        IN /\ analysisResults' =
                                Append(analysisResults,
                                       [type |-> analysis.type,
                                        description |-> analysis.description,
                                        result |-> reply.object])
                           /\ planLinksData' =
                                Some(PushAnalysis(planLinksData.v, i, researchPlan.v,
                                                  analysis, reply.object))
            /\ UNCHANGED <<assistantMessageId, researchPlan, searchResults,
                           reportContent, db>>
       [] pc = "updateAnalysis" ->
            \* lines 280-287, then line 231 or 293
            /\ \E ok \in UpdateReplies :
                 db' = IF ok
                         THEN updateMessageInDatabase(db,
                                [analysis_results |-> Some(analysisResults),
                                 research_plan_links |-> planLinksData,
                                 research_status |-> currentStatus,
                                 research_progress |-> currentProgress])
                         ELSE db
            /\ UNCHANGED <<assistantMessageId, researchPlan, planLinksData,
                           searchResults, analysisResults, reportContent>>
       [] pc = "streamText" ->
            \* lines 388-395
            UNCHANGED <<assistantMessageId, researchPlan, planLinksData,
                        searchResults, analysisResults, reportContent, db>>
       [] pc = "textStream" ->
            \* lines 407-415: a fragment arrives, or the text stream ends or fails
            /\ \/ /\ Len(reportContent) < MaxChunks
                  /\ \E tok \in ChunkTokens : reportContent' = reportContent \o <<tok>>
               \/ UNCHANGED reportContent
            /\ UNCHANGED <<assistantMessageId, researchPlan, planLinksData,
                           searchResults, analysisResults, db>>
       [] pc = "updateFinal" ->
            \* lines 431-451: nothing is sent after the final update
            /\ \E ok \in UpdateReplies :
                 db' = IF ok
                         THEN updateMessageInDatabase(db,
                                [content |-> reportContent,
                                 research_status |-> currentStatus,
                                 research_progress |-> currentProgress,
                                 research_plan_links |-> planLinksData,
                                 research_steps |->
                                   Some([planning |-> TRUE, searching |-> TRUE,
                                         analyzing |-> TRUE, complete |-> TRUE]),
                                 citation_sources |->
                                   Some(CitationSources(allSources))])
                         ELSE db
            /\ UNCHANGED <<assistantMessageId, researchPlan, planLinksData,
                           searchResults, analysisResults, reportContent>>
  /\ UNCHANGED <<currentProgress, currentStatus, allSources, state, delivered,
                 recovered, envVars, readVars>>

----------------------------------------------------------------------------
(* The client hook *)

\* the state startDeepSearch sets before it sends the request
ResetState ==
  [isActive |-> TRUE, progress |-> 0, status |-> "planning", updates |-> <<>>,
   result |-> Null, error |-> Null, researchPlan |-> Null,
   finalSources |-> Null, planLinks |-> Null]

\* addUpdate: the update is appended to the list
addUpdate(st, update) == [st EXCEPT !.updates = Append(@, update)]

\* faulty variant: the value of the frame is stored as it comes
updateProgressUnclamped(st, progress) == [st EXCEPT !.progress = progress]

\* updateProgress: Math.min(100, Math.max(0, progress))
updateProgress(st, progress) ==
  [st EXCEPT !.progress = Min(100, Max(0, progress))]

\* faulty variant: a frame of an unknown type ends the search with an error
DefaultCaseFatal(st, eventData) ==
  [st EXCEPT !.error = Some("unknown event"), !.isActive = FALSE,
             !.status = "complete"]

\* default: console.log('Unknown event type')
DefaultCase(st, eventData) == st

\* faulty variant: the steps up to 6 are taken for analyses, the later ones
\* for searches
StatusOfStepSwapped(step) ==
  IF step = 1 THEN "planning"
  ELSE IF step <= 6 THEN "analyzing"
  ELSE "searching"

\* case 'step_start': the status that goes with the step number
StatusOfStep(step) ==
  IF step = 1 THEN "planning"
  ELSE IF step <= 6 THEN "searching"
  ELSE "analyzing"

\* faulty variant: a step_complete for a step that is not in the list adds
\* the step to the list
StepCompleteCaseAppends(st, eventData) ==
  IF \E k \in 1..Len(st.updates) : st.updates[k].step = eventData.data.step
    THEN [st EXCEPT !.updates =
            [k \in 1..Len(st.updates) |->
               IF st.updates[k].step = eventData.data.step
                 THEN [st.updates[k] EXCEPT
                         !.status = "completed",
                         !.description = eventData.data.description,
                         !.data = eventData.data.data]
                 ELSE st.updates[k]]]
    ELSE addUpdate(st, [step |-> eventData.data.step,
                        title |-> eventData.data.title,
                        description |-> eventData.data.description,
                        status |-> "completed",
                        data |-> eventData.data.data])

\* case 'step_complete': prev.updates.map(...) on the step number
StepCompleteCase(st, eventData) ==
  [st EXCEPT !.updates =
     [k \in 1..Len(st.updates) |->
        IF st.updates[k].step = eventData.data.step
          THEN [st.updates[k] EXCEPT
                  !.status = "completed",
                  !.description = eventData.data.description,
                  !.data = eventData.data.data]
          ELSE st.updates[k]]]

\* faulty variant: the full report is appended to the chunks received
ReportCompleteCaseAppends(st, eventData) ==
  [st EXCEPT !.result =
               Some((IF st.result = Null THEN <<>> ELSE st.result.v)
                    \o eventData.data.fullReport),
             !.finalSources = Some(eventData.data.sources),
             !.isActive = FALSE,
             !.progress = 100,
             !.status = "complete"]

\* case 'report_complete'
ReportCompleteCase(st, eventData) ==
  [st EXCEPT !.result = Some(eventData.data.fullReport),
             !.finalSources = Some(eventData.data.sources),
             !.isActive = FALSE,
             !.progress = 100,
             !.status = "complete"]

\* faulty variant: an error discards the partial report and the progress
ErrorCaseDiscards(st, eventData) ==
  [st EXCEPT !.error = Some(eventData.data.message),
             !.isActive = FALSE,
             !.status = "complete",
             !.result = Null,
             !.progress = 0]

\* faulty variant: an error is recorded and the search stays active
ErrorCaseStaysActive(st, eventData) ==
  [st EXCEPT !.error = Some(eventData.data.message)]

\* case 'error'
ErrorCase(st, eventData) ==
  [st EXCEPT !.error = Some(eventData.data.message),
             !.isActive = FALSE,
             !.status = "complete"]

\* handleServerEvent: the fold of one frame into the state
handleServerEvent(st, eventData) ==
  CASE eventData.type = "step_start" ->
         [addUpdate(st, [step |-> eventData.data.step,
                         title |-> eventData.data.title,
                         description |-> eventData.data.description,
                         status |-> "running",
                         data |-> Null])
            EXCEPT !.status = StatusOfStep(eventData.data.step)]
    [] eventData.type = "step_complete" -> StepCompleteCase(st, eventData)
    [] eventData.type = "research_plan" ->
         [st EXCEPT !.researchPlan = Some(eventData.data.plan)]
    [] eventData.type = "progress" ->
         updateProgress(st, eventData.data.progress)
    [] eventData.type = "status_change" ->
         [st EXCEPT !.status = eventData.data.status]
    [] eventData.type = "report_chunk" ->
         [st EXCEPT !.result =
            Some((IF st.result = Null THEN <<>> ELSE st.result.v)
                 \o eventData.data.chunk)]
    [] eventData.type = "report_complete" -> ReportCompleteCase(st, eventData)
    [] eventData.type = "error" -> ErrorCase(st, eventData)
    [] OTHER -> DefaultCase(st, eventData)

\* JSON.stringify / JSON.parse: a JSON text is its value, or is not valid
\* JSON at all (JSON.parse throws a SyntaxError)
JSONstringify(value) == [valid |-> TRUE, value |-> value]
InvalidJSON == [valid |-> FALSE, value |-> Null]
JSONparseThrows(text) == ~text.valid
JSONparse(text) == text.value

\* sendUpdate's encoding of a frame: `data: ${JSON.stringify(update)}\n\n`,
\* that is the line "data: <json>" followed by an empty line
Encode(frame) ==
  <<[prefix |-> "data: ", payload |-> JSONstringify(frame)],
    [prefix |-> "", payload |-> InvalidJSON]>>

\* handleServerEvent throws before it has changed anything: eventData is null
\* (eventData.type), or a step_start / progress frame has no data
\* (eventData.data.step, eventData.data.progress)
HandlerThrows(eventData) ==
  IF eventData = Null THEN TRUE
  ELSE /\ eventData.type \in {"step_start", "progress"}
       /\ "data" \notin DOMAIN eventData

\* faulty variant: a frame that cannot be handled ends the search like the
\* outer catch of startDeepSearch does
CatchParseErrorAborts(st) ==
  [st EXCEPT !.error = Some("parse error"), !.isActive = FALSE,
             !.status = "complete"]

\* catch (parseError) { console.error(...) }
CatchParseError(st) == st

\* the body of `for (const line of lines)`: one line of the stream
HandleLine(st, line) ==
  IF line.prefix # "data: " THEN st
  ELSE IF JSONparseThrows(line.payload) THEN CatchParseError(st)
  ELSE IF HandlerThrows(JSONparse(line.payload)) THEN CatchParseError(st)
  ELSE handleServerEvent(st, JSONparse(line.payload))

RECURSIVE HandleLines(_, _)
\* the loop `for (const line of lines)` over the lines of a chunk
HandleLines(st, lines) ==
  IF lines = <<>> THEN st
  ELSE HandleLines(HandleLine(st, Head(lines)), Tail(lines))

\* the read loop of startDeepSearch receives the next frame as a chunk and
\* handles its lines
ClientHandle ==
  /\ ~cancelled
  /\ delivered < Len(frames)
  /\ state' = HandleLines(state, Encode(frames[delivered + 1]))
  /\ delivered' = delivered + 1
  /\ UNCHANGED <<orchVars, recovered, envVars, readVars>>

\* lines a stream may carry to the read loop: frames as the orchestrator
\* encodes them, progress frames beyond 0..100, a report_complete frame whose
\* report is not the chunks sent, a frame of a type the hook does not know, a truncated
\* payload, the JSON text null, a step_start frame without data, and a line
\* that is not a data line
WireLines ==
  {[prefix |-> "data: ", payload |-> JSONstringify(
      [type |-> "step_start",
       data |-> StepStart(1, PlanningTitle,
                  Fmt("Creating comprehensive research plan...", 0, <<>>))])],
   [prefix |-> "data: ", payload |-> JSONstringify(
      [type |-> "step_complete",
       data |-> StepComplete(1, PlanningTitle,
                  Fmt("Research plan created successfully", 0, <<>>), Null)])],
   [prefix |-> "data: ", payload |-> JSONstringify(
      [type |-> "step_start",
       data |-> StepStart(2, SearchTitle(1),
                  Fmt("Searching: %s", 0, <<"query", 1>>))])],
   [prefix |-> "data: ", payload |-> JSONstringify(
      [type |-> "step_complete",
       data |-> StepComplete(2, SearchTitle(1),
                  Fmt("Found %n sources", 1, <<>>),
                  Some([query |-> <<"query", 1>>, resultCount |-> 1,
                        sources |-> <<[title |-> "Alpha",
                                       url |-> "https://a.com/1"]>>]))])],
   [prefix |-> "data: ", payload |-> JSONstringify(
      [type |-> "research_plan", data |-> [plan |-> ThePlan]])],
   [prefix |-> "data: ", payload |-> JSONstringify(
      [type |-> "progress", data |-> [progress |-> 50]])],
   [prefix |-> "data: ", payload |-> JSONstringify(
      [type |-> "progress", data |-> [progress |-> 150]])],
   [prefix |-> "data: ", payload |-> JSONstringify(
      [type |-> "progress", data |-> [progress |-> 0 - 5]])],
   [prefix |-> "data: ", payload |-> JSONstringify(
      [type |-> "report_chunk", data |-> [chunk |-> <<"draft">>]])],
   [prefix |-> "data: ", payload |-> JSONstringify(
      [type |-> "report_complete",
       data |-> [fullReport |-> <<"final", "report">>,
                 sources |-> <<[title |-> "Alpha", url |-> "https://a.com/1",
                                relevance |-> 80]>>]])],
   [prefix |-> "data: ", payload |-> JSONstringify(
      [type |-> "heartbeat", data |-> [progress |-> 99]])],
   [prefix |-> "data: ", payload |-> InvalidJSON],
   [prefix |-> "data: ", payload |-> JSONstringify(Null)],
   [prefix |-> "data: ", payload |-> JSONstringify([type |-> "step_start"])],
   [prefix |-> "", payload |-> InvalidJSON]}

\* the read loop of startDeepSearch on an arbitrary stream: the next line
ReadLine ==
  /\ pc = "wire"
  /\ delivered < Len(wire)
  /\ state' = HandleLine(state, wire[delivered + 1])
  /\ delivered' = delivered + 1
  /\ UNCHANGED <<orchVars, recovered, envVars, readVars>>

\* recoverFromDatabase: the state rebuilt from a messages row; ok is the
\* function's return value (false: the state is left alone)
recoverFromDatabase(st, messageData) ==
  IF messageData = Null THEN [ok |-> FALSE, state |-> st]
  ELSE IF messageData.v.research_plan_links = Null THEN [ok |-> FALSE, state |-> st]
  ELSE
    LET row == messageData.v
        links == row.research_plan_links.v
        planning ==
          IF row.research_plan # Null
            THEN <<[step |-> 1, title |-> PlanningTitle,
                    description |->
                      Fmt("Research plan created successfully", 0, <<>>),
                    status |-> "completed", data |-> Null]>>
            ELSE <<>>
        Source(l) == [title |-> l.title, url |-> l.url]
        Search(search) ==
          [step |-> search.step,
           title |-> SearchTitle(search.step - 1),
           description |->
             Fmt("Found %n sources for %s", search.result_count, search.query),
           status |-> search.status,
           data |-> Some([query |-> search.query,
                          resultCount |-> search.result_count,
                          sources |-> MapSeq(Source, Slice(search.links, 4))])]
        Analysis(analysis) ==
          [step |-> analysis.step,
           title |-> AnalysisTitle(analysis.step - 6, analysis.type),
           description |->
             Fmt("Analysis completed - %n key findings",
                 analysis.findings_count, <<>>),
           status |-> analysis.status,
           data |-> Some([type |-> analysis.type,
                          findingsCount |-> analysis.findings_count,
                          keyLinks |-> Slice(analysis.key_sources, 4)])]
        report ==
          IF row.research_status = "complete" /\ row.content # <<>>
            THEN <<[step |-> 12, title |-> ReportTitle,
                    description |-> Fmt("Report generated successfully", 0, <<>>),
                    status |-> "completed", data |-> Null]>>
            ELSE <<>>
        Final(source) == [title |-> source.title, url |-> source.url,
                          relevance |-> RelevanceOr70(source.relevance)]
    IN [ok |-> TRUE,
        state |->
          [isActive |-> row.research_status # "complete",
           progress |-> row.research_progress,
           status |-> row.research_status,
           updates |-> planning \o MapSeq(Search, links.searches)
                       \o MapSeq(Analysis, links.analyses) \o report,
           result |-> IF row.content = <<>> THEN Null ELSE Some(row.content),
           error |-> Null,
           researchPlan |-> row.research_plan,
           finalSources |->
             IF row.citation_sources # Null /\ Len(row.citation_sources.v) > 0
               THEN Some(MapSeq(Final, row.citation_sources.v))
               ELSE Null,
           planLinks |-> row.research_plan_links]]

\* Chat.tsx, checkDeepSearchRecovery: after a reload, the last message of the
\* session is recovered when it carries plan links and its status is complete
Recover ==
  /\ db # Null
  /\ db.v.research_plan_links # Null
  /\ db.v.research_status = "complete"
  /\ LET r == recoverFromDatabase(ResetState, db)
     IN /\ r.ok
        /\ recovered' = Some(r.state)
  /\ UNCHANGED <<orchVars, state, delivered, envVars, readVars>>

----------------------------------------------------------------------------
(* Specification *)

Init ==
  /\ pc = "start"
  /\ frames = <<>>
  /\ closeCount = 0
  /\ assistantMessageId = Null
  /\ currentProgress = 0
  /\ currentStatus = "planning"
  /\ researchPlan = Null
  /\ planLinksData = Null
  /\ searchResults = <<>>
  /\ analysisResults = <<>>
  /\ allSources = <<>>
  /\ reportContent = <<>>
  /\ db = Null
  /\ state = ResetState
  /\ delivered = 0
  /\ recovered = Null
  /\ request \in RequestBodies
  /\ response = Null
  /\ cancelled = FALSE
  /\ wire = <<>>
  /\ unread = <<>>
  /\ buffer = <<>>
  /\ handed = <<>>
  /\ stopped = "no"

Next ==
  \/ RejectRequest
  \/ StartRun
  \/ PlanDone
  \/ InsertDone
  \/ SearchDone
  \/ SearchSaved
  \/ AnalyzeDone
  \/ AnalysisSaved
  \/ StreamTextDone
  \/ ReportChunk
  \/ StreamThrows
  \/ StreamEnds
  \/ FinalSaved
  \/ ClientHandle
  \/ Recover

Spec == Init /\ [][Next]_vars

\* the hook alone, reading a stream of up to MaxWire arbitrary lines
WireInit ==
  /\ pc = "wire"
  /\ frames = <<>>
  /\ closeCount = 0
  /\ assistantMessageId = Null
  /\ currentProgress = 0
  /\ currentStatus = "planning"
  /\ researchPlan = Null
  /\ planLinksData = Null
  /\ searchResults = <<>>
  /\ analysisResults = <<>>
  /\ allSources = <<>>
  /\ reportContent = <<>>
  /\ db = Null
  /\ state = ResetState
  /\ delivered = 0
  /\ recovered = Null
  /\ request = [topic |-> Some("topic"), sessionId |-> Some("s1")]
  /\ response = Some([status |-> 200, body |-> "stream"])
  /\ cancelled = FALSE
  /\ wire \in UNION {[1..n -> WireLines] : n \in 0..MaxWire}
  /\ unread = <<>>
  /\ buffer = <<>>
  /\ handed = <<>>
  /\ stopped = "no"

WireSpec == WireInit /\ [][ReadLine]_vars

\* the source collection of the report step alone (lines 300-335), applied
\* to the results of five searches of four results each and five analyses.
\* FreshURLs[k] are four URLs only search k returns
FreshURLs ==
  <<
     <<"https://s1.example/1", "https://s1.example/2", "https://s1.example/3", "https://s1.example/4">>,
     <<"https://s2.example/1", "https://s2.example/2", "https://s2.example/3", "https://s2.example/4">>,
     <<"https://s3.example/1", "https://s3.example/2", "https://s3.example/3", "https://s3.example/4">>,
     <<"https://s4.example/1", "https://s4.example/2", "https://s4.example/3", "https://s4.example/4">>,
     <<"https://s5.example/1", "https://s5.example/2", "https://s5.example/3", "https://s5.example/4">>
  >>

\* search k returns its own four URLs, or the four URLs of search 1 again
SourceSearchInputs ==
  {[k \in 1..NumSearches |->
      executeWebSearch(ThePlan.searches[k].query, "basic",
                       ThePlan.searches[k].priority,
                       [threw |-> FALSE,
                        results |-> [j \in 1..4 |->
                                       R("Result",
                                         FreshURLs[IF fresh[k] THEN k ELSE 1][j])]])]
     : fresh \in [1..NumSearches -> BOOLEAN]}

\* the key sources an analysis may report: a URL a search returned, a URL
\* no search returned, or both
KeySourceInputs ==
  {<<K("Cited", "https://s1.example/1", 90)>>,
   <<K("Elsewhere", "https://k.example/1", 90)>>,
   <<K("Elsewhere", "https://k.example/1", 90),
     K("Cited", "https://s1.example/2", 0)>>,
   <<K("Cited", "https://s1.example/1", 90), K("Cited", "https://s1.example/1", 50)>>}

\* the first analysis reports one list of key sources, the others another
SourceAnalysisInputs ==
  {[k \in 1..NumAnalyses |->
      [type |-> ThePlan.analyses[k].type,
       description |-> ThePlan.analyses[k].description,
       result |-> [findings |-> <<"insight 1">>,
                   key_sources |-> IF k = 1 THEN first ELSE rest]]]
     : first \in KeySourceInputs, rest \in KeySourceInputs}

SourcesInit ==
  /\ pc = "collect"
  /\ frames = <<>>
  /\ closeCount = 0
  /\ assistantMessageId = Null
  /\ currentProgress = 0
  /\ currentStatus = "analyzing"
  /\ researchPlan = Some(ThePlan)
  /\ planLinksData = Null
  /\ searchResults \in SourceSearchInputs
  /\ analysisResults \in SourceAnalysisInputs
  /\ allSources = <<>>
  /\ reportContent = <<>>
  /\ db = Null
  /\ state = ResetState
  /\ delivered = 0
  /\ recovered = Null
  /\ request = [topic |-> Some("topic"), sessionId |-> Some("s1")]
  /\ response = Some([status |-> 200, body |-> "stream"])
  /\ cancelled = FALSE
  /\ wire = <<>>
  /\ unread = <<>>
  /\ buffer = <<>>
  /\ handed = <<>>
  /\ stopped = "no"

\* lines 300-335: allSources is assembled from all results
CollectStep ==
  /\ pc = "collect"
  /\ allSources' = CollectSources(searchResults, analysisResults)
  /\ pc' = "collected"
  /\ UNCHANGED <<frames, closeCount, assistantMessageId, currentProgress,
                 currentStatus, researchPlan, planLinksData, searchResults,
                 analysisResults, reportContent, db, state, delivered,
                 recovered, envVars, readVars>>

SourcesSpec == SourcesInit /\ [][CollectStep]_vars

\* the text sendUpdate enqueues for a frame, `data: ${JSON.stringify(update)}\n\n`,
\* as pieces a chunk boundary may fall between: the prefix in two pieces,
\* the JSON text in two halves, and the two newlines
Piece(c, json) == [c |-> c, json |-> json]
NewLine == Piece("\n", Null)

Bytes(frame) ==
  <<Piece("da", Null), Piece("ta: ", Null),
    Piece("1/2", Some(frame)), Piece("2/2", Some(frame)), NewLine, NewLine>>

\* String.prototype.split('\n')
Split(text) ==
  LET IsNewLine(k) == text[k] = NewLine
      nl == SelectSeq([k \in 1..Len(text) |-> k], IsNewLine)
  IN [j \in 1..(Len(nl) + 1) |->
        SubSeq(text,
               IF j = 1 THEN 1 ELSE nl[j - 1] + 1,
               IF j <= Len(nl) THEN nl[j] - 1 ELSE Len(text))]

\* line.startsWith('data: ')
StartsWithData(line) ==
  IF Len(line) < 2 THEN FALSE
  ELSE line[1] = Piece("da", Null) /\ line[2] = Piece("ta: ", Null)

\* JSON.parse(line.slice(6)): the text is valid when it is the two halves of
\* one JSON text
ParseThrows(line) ==
  IF Len(line) # 4 THEN TRUE
  ELSE ~(/\ line[3].c = "1/2"
         /\ line[4].c = "2/2"
         /\ line[3].json = line[4].json)

Parsed(line) == line[3].json.v

\* the body of `for (const line of lines)` on a line of text; acc is the
\* hook's state and the frames passed to handleServerEvent so far
HandleText(acc, line) ==
  IF ~StartsWithData(line) THEN acc
  ELSE IF ParseThrows(line) THEN acc
  ELSE [state |-> IF HandlerThrows(Parsed(line))
                    THEN CatchParseError(acc.state)
                    ELSE handleServerEvent(acc.state, Parsed(line)),
        handed |-> Append(acc.handed, Parsed(line))]

RECURSIVE HandleTexts(_, _)
HandleTexts(acc, lines) ==
  IF lines = <<>> THEN acc
  ELSE HandleTexts(HandleText(acc, Head(lines)), Tail(lines))

\* faulty variant: the incomplete last line is thrown away
KeepIncompleteDrops(lines) == <<>>

\* buffer = lines.pop() || ''
KeepIncomplete(lines) == lines[Len(lines)]

\* frames of a response body as the orchestrator sends them
BodyFrames ==
  {[type |-> "step_start",
    data |-> StepStart(1, PlanningTitle,
               Fmt("Creating comprehensive research plan...", 0, <<>>))],
   [type |-> "step_complete",
    data |-> StepComplete(1, PlanningTitle,
               Fmt("Research plan created successfully", 0, <<>>), Null)],
   [type |-> "progress", data |-> [progress |-> 50]],
   [type |-> "report_chunk", data |-> [chunk |-> <<"draft">>]]}

\* the hook reads the body of a response that carries up to MaxFrames frames
ChunkInit ==
  /\ pc = "read"
  /\ frames \in UNION {[1..n -> BodyFrames] : n \in 0..MaxFrames}
  /\ closeCount = 1
  /\ assistantMessageId = Null
  /\ currentProgress = 0
  /\ currentStatus = "planning"
  /\ researchPlan = Null
  /\ planLinksData = Null
  /\ searchResults = <<>>
  /\ analysisResults = <<>>
  /\ allSources = <<>>
  /\ reportContent = <<>>
  /\ db = Null
  /\ state = ResetState
  /\ delivered = 0
  /\ recovered = Null
  /\ request = [topic |-> Some("topic"), sessionId |-> Some("s1")]
  /\ response = Some([status |-> 200, body |-> "stream"])
  /\ cancelled = FALSE
  /\ wire = <<>>
  /\ unread = Concat(MapSeq(Bytes, frames))
  /\ buffer = <<>>
  /\ handed = <<>>
  /\ stopped = "no"

\* lines 133-159: reader.read() returns a chunk of any size; the chunk is
\* added to the buffer, the complete lines are handled and the incomplete
\* last line is kept
ReadChunk ==
  /\ pc = "read"
  /\ unread # <<>>
  /\ \E n \in 1..Len(unread) :
       LET lines == Split(buffer \o SubSeq(unread, 1, n))
           acc == HandleTexts([state |-> state, handed |-> handed],
                              SubSeq(lines, 1, Len(lines) - 1))
       IN /\ unread' = SubSeq(unread, n + 1, Len(unread))
          /\ buffer' = KeepIncomplete(lines)
          /\ state' = acc.state
          /\ handed' = acc.handed
          /\ delivered' = Len(acc.handed)
  /\ UNCHANGED <<orchVars, recovered, envVars, stopped>>

\* line 136: reader.read() returns done, the loop is left
ReadDone ==
  /\ pc = "read"
  /\ unread = <<>>
  /\ pc' = "readDone"
  /\ UNCHANGED <<frames, closeCount, assistantMessageId, currentProgress,
                 currentStatus, researchPlan, planLinksData, searchResults,
                 analysisResults, allSources, reportContent, db, state,
                 delivered, recovered, envVars, readVars>>

ChunkSpec == ChunkInit /\ [][ReadChunk \/ ReadDone]_vars

\* stopDeepSearch: eventSourceRef.current is null (nothing assigns it), so
\* only the state is set; the read loop is not told
stopDeepSearch ==
  /\ pc = "wire"
  /\ stopped = "no"
  /\ delivered < Len(wire)
  /\ state' = [state EXCEPT !.isActive = FALSE]
  /\ stopped' = "stop"
  /\ UNCHANGED <<orchVars, delivered, recovered, envVars, unread, buffer, handed>>

\* resetDeepSearch: the state is set to the initial values, inactive
resetDeepSearch ==
  /\ pc = "wire"
  /\ stopped = "no"
  /\ delivered < Len(wire)
  /\ state' = [ResetState EXCEPT !.isActive = FALSE]
  /\ stopped' = "reset"
  /\ UNCHANGED <<orchVars, delivered, recovered, envVars, unread, buffer, handed>>

\* the hook reading a stream while the user may stop or reset the search
StopSpec == WireInit /\ [][ReadLine \/ stopDeepSearch \/ resetDeepSearch]_vars

\* the same system with a consumer that may cancel the stream at any moment
CancelNext ==
  \/ Next
  \/ ConsumerCancel
  \/ CancelledResume

CancelSpec == Init /\ [][CancelNext]_vars

\* the steps of the POST handler: a continuation runs once its await settled
OrchNext ==
  \/ RejectRequest
  \/ StartRun \/ PlanDone \/ InsertDone \/ SearchDone \/ SearchSaved
  \/ AnalyzeDone \/ AnalysisSaved \/ StreamTextDone \/ ReportChunk
  \/ StreamThrows \/ StreamEnds \/ FinalSaved

\* every adapter call returns or throws, and the text stream ends or fails;
\* the observer's read loop handles every frame it has received
FairSpec ==
  /\ Spec
  /\ WF_vars(OrchNext)
  /\ WF_vars(StreamThrows \/ StreamEnds)
  /\ WF_vars(ClientHandle)

----------------------------------------------------------------------------
(* Observations on the stream *)

FramesOf(type) == {k \in 1..Len(frames) : frames[k].type = type}

StepFrames(type, lo, hi) ==
  {k \in FramesOf(type) : frames[k].data.step \in lo..hi}

\* controller.close() has been called
Closed == closeCount >= 1

\* the live observer has handled every frame of a closed stream
Drained == Closed /\ delivered = Len(frames)

\* the index in st.updates of the updates with this step number
UpdatesOfStep(st, step) == {k \in 1..Len(st.updates) : st.updates[k].step = step}

RECURSIVE FoldFrames(_, _)
\* the read loop over a whole frame sequence (startDeepSearch, lines 144-159)
FoldFrames(st, fs) ==
  IF fs = <<>> THEN st ELSE FoldFrames(handleServerEvent(st, Head(fs)), Tail(fs))

----------------------------------------------------------------------------
(* C1: in every run, the values of the progress frames are non-decreasing  *)
(* in the order of emission, and the progress of the observer's state      *)
(* never decreases while it folds the frames.                              *)

ProgressFramesSorted ==
  \A j, k \in FramesOf("progress") :
    j < k => frames[j].data.progress <= frames[k].data.progress

C1_ProgressMonotone ==
  /\ []ProgressFramesSorted
  /\ [][state.progress <= state'.progress]_vars

\* a run that went through every phase, wholly folded
C1_Witness ==
  /\ Drained
  /\ Cardinality(FramesOf("progress")) = 12
  /\ state.progress = 100

----------------------------------------------------------------------------
(* C2: when a step_complete, progress or report_complete frame is on the   *)
(* stream, the persisted row already reflects it (stated for the runs that *)
(* have a message row).                                                    *)

RowReflects(frame) ==
  /\ db # Null
  /\ LET row == db.v
         links == row.research_plan_links.v
     IN CASE frame.type = "step_complete" /\ frame.data.step \in 2..6 ->
               \E k \in 1..Len(links.searches) :
                 links.searches[k].step = frame.data.step
          [] frame.type = "step_complete" /\ frame.data.step \in 7..11 ->
               \E k \in 1..Len(links.analyses) :
                 links.analyses[k].step = frame.data.step
          [] frame.type = "progress" ->
               row.research_progress >= frame.data.progress
          [] frame.type = "report_complete" ->
               /\ row.content = frame.data.fullReport
               /\ row.research_status = "complete"
          [] OTHER -> TRUE

C2_PersistBeforeEmit ==
  assistantMessageId # Null =>
    \A k \in 1..Len(frames) : RowReflects(frames[k])

----------------------------------------------------------------------------
(* C3: for a run that completed live and has a persisted row, the state    *)
(* recoverFromDatabase builds from the final row has the progress, status  *)
(* and finalSources of the state folded from the whole frame sequence.     *)

CompletedLive == Drained /\ FramesOf("report_complete") # {}

C3_RecoveryEqualsLive ==
  (CompletedLive /\ assistantMessageId # Null) =>
    LET r == recoverFromDatabase(ResetState, db)
    IN /\ r.ok
       /\ r.state.progress = state.progress
       /\ r.state.status = state.status
       /\ r.state.finalSources = state.finalSources

----------------------------------------------------------------------------
(* C4 as claimed: every run, once closed, has exactly 5 step_start /       *)
(* step_complete pairs for the search steps and 5 for the analysis steps.  *)

Pairs(lo, hi, n) ==
  /\ Cardinality(StepFrames("step_start", lo, hi)) = n
  /\ Cardinality(StepFrames("step_complete", lo, hi)) = n
  /\ \A s \in lo..hi :
       \A k \in StepFrames("step_complete", s, s) :
         \E j \in StepFrames("step_start", s, s) : j < k

C4_FivePairsInEveryRun ==
  Closed => Pairs(2, 6, 5) /\ Pairs(7, 11, 5)

(* C4 amended: every run that reaches the report step (step_start of step  *)
(* 12 is on the stream) has exactly 5 pairs for the search steps and 5 for *)
(* the analysis steps, whatever the searches returned; a run never has     *)
(* more than 5 step_start frames of either kind.                           *)

C4_FivePairsBeforeReport ==
  /\ StepFrames("step_start", 12, 12) # {} => Pairs(2, 6, 5) /\ Pairs(7, 11, 5)
  /\ Cardinality(StepFrames("step_start", 2, 6)) <= 5
  /\ Cardinality(StepFrames("step_start", 7, 11)) <= 5

\* a run at the report step in which one search found nothing and another
\* found five results
C4_Witness ==
  /\ StepFrames("step_start", 12, 12) # {}
  /\ \E j, k \in 1..Len(searchResults) :
       /\ Len(searchResults[j].results) = 0
       /\ Len(searchResults[k].results) = 5

----------------------------------------------------------------------------
(* C5: folding the frame sequence of a run a second time into the state    *)
(* folded from it leaves that state as it is.                              *)

C5_ReplayIdempotent ==
  Drained => FoldFrames(state, frames) = state

----------------------------------------------------------------------------
(* C6: when the search provider threw for a search, the StepUpdate of that *)
(* step, once its step_complete is folded, has status "error" and result   *)
(* count 0.                                                                *)

Folded(type, step) ==
  \E k \in StepFrames(type, step, step) : k <= delivered

C6_FailedSearchIsError ==
  \A i \in 1..Len(searchResults) :
    (searchResults[i].error # Null /\ Folded("step_complete", i + 1)) =>
      \A k \in UpdatesOfStep(state, i + 1) :
        /\ state.updates[k].status = "error"
        /\ state.updates[k].data.v.resultCount = 0

----------------------------------------------------------------------------
(* C7: when createResearchPlan throws, the stream carries exactly one      *)
(* error frame and no step_start of a step after 1, nothing is persisted   *)
(* and the stream is closed.                                               *)

PlanningFailed ==
  researchPlan = Null /\ pc \notin {"start", "rejected", "createResearchPlan"}

C7_PlanningFailure ==
  PlanningFailed =>
    /\ pc = "done"
    /\ closeCount = 1
    /\ Cardinality(FramesOf("error")) = 1
    /\ StepFrames("step_start", 2, 12) = {}
    /\ db = Null
    /\ assistantMessageId = Null

C7_Witness == PlanningFailed /\ Drained /\ state.error # Null

----------------------------------------------------------------------------
(* C8: when the last frame the observer has handled is the step_complete   *)
(* of step 3 (and the run has a message row), the state recovered from the *)
(* row persisted at that moment shows exactly the steps 1, 2 and 3, all    *)
(* completed.                                                              *)

JustFolded(type, step) ==
  /\ delivered > 0
  /\ frames[delivered].type = type
  /\ frames[delivered].data.step = step

C8_RecoveredAfterStep3 ==
  (JustFolded("step_complete", 3) /\ assistantMessageId # Null) =>
    LET r == recoverFromDatabase(ResetState, db)
        steps == [k \in 1..Len(r.state.updates) |-> r.state.updates[k].step]
    IN /\ r.ok
       /\ steps = <<1, 2, 3>>
       /\ \A k \in 1..Len(r.state.updates) :
            r.state.updates[k].status = "completed"

----------------------------------------------------------------------------
(* C9: in the snapshot the orchestrator holds and in the snapshot of the   *)
(* persisted row, total_links is the sum of the lengths of the links of    *)
(* all search records.                                                     *)

LinkCount(search) == Len(search.links)

TotalLinksConsistent(snapshot) ==
  snapshot # Null =>
    snapshot.v.total_links = SumSeq(MapSeq(LinkCount, snapshot.v.searches))

C9_TotalLinks ==
  /\ TotalLinksConsistent(planLinksData)
  /\ db # Null => TotalLinksConsistent(db.v.research_plan_links)

\* a persisted snapshot with an empty search record and two records of
\* different sizes
C9_Witness ==
  /\ db # Null
  /\ LET searches == db.v.research_plan_links.v.searches
     IN /\ Len(searches) >= 3
        /\ {0, 4, 5} \subseteq {Len(searches[k].links) : k \in 1..Len(searches)}
  /\ db.v.research_plan_links.v.total_links >= 9

----------------------------------------------------------------------------
(* C10: in every run (every request that is not rejected) the stream is   *)
(* eventually closed, controller.close() is called exactly once, and no   *)
(* frame is enqueued after the close.                                      *)

C10_StreamClosed ==
  /\ <>(Closed \/ pc = "rejected")
  /\ [](closeCount <= 1)
  /\ [](pc = "done" => Closed)
  /\ [][Closed => frames' = frames]_vars

\* closed runs of both kinds: one that failed and one that completed
C10_Witness ==
  /\ Closed
  /\ closeCount = 1
  /\ FramesOf("error") # {}
  /\ FramesOf("report_complete") # {}

----------------------------------------------------------------------------
(* C11: an error frame is the last thing a run does: once it is emitted    *)
(* the handler has finished, no frame of any type follows it, and the      *)
(* persisted row keeps the value it had (neither rolled back nor changed). *)

ErrorEmitted == FramesOf("error") # {}

C11_ErrorAbsorbing ==
  /\ [](ErrorEmitted => /\ pc = "done"
                        /\ frames[Len(frames)].type = "error"
                        /\ Cardinality(FramesOf("error")) = 1)
  /\ [][ErrorEmitted => UNCHANGED orchVars]_vars

\* a run that failed in its analysis phase after search records had been
\* persisted, observed after the error frame was handled
C11_Witness ==
  /\ ErrorEmitted
  /\ delivered = Len(frames)
  /\ db # Null
  /\ Len(db.v.research_plan_links.v.searches) = NumSearches
  /\ Len(db.v.research_plan_links.v.analyses) >= 1
  /\ db.v.research_status = "analyzing"

----------------------------------------------------------------------------
(* C12: the consumer closing its side of the stream does not stop the      *)
(* orchestrator. A handler that has got its plan and has recorded every    *)
(* search it made stops only after all five searches (no external call can *)
(* fail it before), whether or not the consumer has cancelled; and with a  *)
(* message row, the last search it made has been persisted.                *)

C12_CancelDoesNotStop ==
  (/\ cancelled
   /\ pc = "done"
   /\ researchPlan # Null
   /\ Len(planLinksData.v.searches) = Len(searchResults))
  => /\ Len(searchResults) = NumSearches
     /\ db # Null => Len(db.v.research_plan_links.v.searches) = NumSearches

----------------------------------------------------------------------------
(* C13: a line whose payload does not parse, or whose handling throws, is  *)
(* skipped alone: after any number of lines the hook's state is the fold,  *)
(* in order, of exactly the well-formed frames among the lines read, and   *)
(* the read loop goes on to the next line as long as there is one.         *)

WellFormedLine(line) ==
  /\ line.prefix = "data: "
  /\ ~JSONparseThrows(line.payload)
  /\ ~HandlerThrows(JSONparse(line.payload))

MalformedLine(line) == line.prefix = "data: " /\ ~WellFormedLine(line)

\* the frames of the well-formed lines among the first n lines of the wire
WellFormedFrames(n) ==
  LET Good(k) == k <= n /\ WellFormedLine(wire[k])
      Value(line) == JSONparse(line.payload)
  IN MapSeq(Value, FilterIndex(wire, Good))

----------------------------------------------------------------------------
(* C14: a frame whose type is none of the eight types the hook knows       *)
(* leaves the hook's state unchanged, and the read loop goes on: the       *)
(* frames after it are folded.                                             *)

KnownTypes ==
  {"step_start", "step_complete", "research_plan", "progress", "status_change",
   "report_chunk", "report_complete", "error"}

UnknownTypeLine(line) ==
  /\ WellFormedLine(line)
  /\ JSONparse(line.payload).type \notin KnownTypes

C14_UnknownTypeIgnored ==
  [][(pc = "wire" /\ delivered' = delivered + 1
      /\ UnknownTypeLine(wire[delivered + 1]))
     => state' = state]_vars

\* a frame of an unknown type between a step_start and a progress frame
C14_Witness ==
  /\ pc = "wire"
  /\ Len(wire) = 3
  /\ delivered = 3
  /\ UnknownTypeLine(wire[2])
  /\ Len(state.updates) = 1
  /\ state.progress = 50
  /\ state.error = Null

----------------------------------------------------------------------------
(* C15: a request whose topic or sessionId is absent or empty gets the     *)
(* 400 response and nothing else: no stream is opened, no frame is         *)
(* emitted, no plan is requested and no row is written.                    *)

Absent(v) == v \in {Null, Some("")}

C15_InvalidRequestRejected ==
  (pc # "wire" /\ (Absent(request.topic) \/ Absent(request.sessionId))) =>
    /\ pc \in {"start", "rejected"}
    /\ pc = "start" => response = Null
    /\ pc = "rejected" => response # Null /\ response.v.status = 400
    /\ frames = <<>>
    /\ closeCount = 0
    /\ researchPlan = Null
    /\ planLinksData = Null
    /\ assistantMessageId = Null
    /\ db = Null

\* a request with a topic and without a sessionId, rejected
C15_Witness ==
  /\ request.topic = Some("topic")
  /\ request.sessionId = Null
  /\ pc = "rejected"
  /\ response # Null
  /\ response.v.status = 400

----------------------------------------------------------------------------
(* C16: at every point of every run, runs that end in an error included,   *)
(* at most one entry of the hook's step list has the status "running".     *)

Running(st) == {k \in 1..Len(st.updates) : st.updates[k].status = "running"}

C16_AtMostOneRunning ==
  /\ Cardinality(Running(state)) <= 1
  /\ recovered # Null => Cardinality(Running(recovered.v)) <= 1

\* a run that failed during its second analysis, every frame folded: the
\* failed step is the one still running, the eight steps before it are
\* completed
C16_Witness ==
  /\ Drained
  /\ state.error # Null
  /\ Len(state.updates) = 8
  /\ Running(state) = {8}

----------------------------------------------------------------------------
(* C17: the step numbers are fixed by phase (1 planning, 2..6 searches,    *)
(* 7..11 analyses, 12 report) whatever the searches returned, and in every *)
(* run the step_complete frames come in strictly ascending step order,     *)
(* each after the step_start of its step and after the step_complete of    *)
(* every lower step.                                                       *)

\* what the title of a step frame says about its phase
PhaseOfTitle(title) ==
  CASE title = PlanningTitle -> "planning"
    [] title = ReportTitle -> "report"
    [] title.fmt = "Web Search %n" -> "search"
    [] title.fmt = "Analysis %n: %s" -> "analysis"
    [] OTHER -> "none"

PhaseOfStep(step) ==
  CASE step = 1 -> "planning"
    [] step \in 2..6 -> "search"
    [] step \in 7..11 -> "analysis"
    [] step = 12 -> "report"
    [] OTHER -> "none"

StepNumbersByPhase ==
  \A k \in FramesOf("step_start") \cup FramesOf("step_complete") :
    /\ frames[k].data.step \in 1..12
    /\ PhaseOfTitle(frames[k].data.title) = PhaseOfStep(frames[k].data.step)
    /\ PhaseOfStep(frames[k].data.step) = "search"
         => frames[k].data.title = SearchTitle(frames[k].data.step - 1)
    /\ PhaseOfStep(frames[k].data.step) = "analysis"
         => frames[k].data.title.n = frames[k].data.step - 6

C17_StepOrder ==
  /\ StepNumbersByPhase
  /\ \A j, k \in FramesOf("step_complete") :
       j < k => frames[j].data.step < frames[k].data.step
  /\ \A k \in FramesOf("step_complete") :
       /\ \E j \in FramesOf("step_start") :
            j < k /\ frames[j].data.step = frames[k].data.step
       /\ \A s \in 1..(frames[k].data.step - 1) :
            \E j \in FramesOf("step_complete") :
              j < k /\ frames[j].data.step = s

\* a run that completed step 12 after searches that returned 0, 4 and 5
\* results
C17_Witness ==
  /\ \E k \in FramesOf("step_complete") : frames[k].data.step = 12
  /\ {0, 4, 5} \subseteq {Len(searchResults[k].results) : k \in 1..Len(searchResults)}

----------------------------------------------------------------------------
(* C18: over the successive values of the snapshot persisted during a run, *)
(* completion_rate never decreases and stays within 0..100, and it is 100  *)
(* in the persisted snapshot of a run that completed.                      *)

PersistedRate == db.v.research_plan_links.v.completion_rate

RunCompleted ==
  /\ pc = "done"
  /\ FramesOf("report_complete") # {}
  /\ FramesOf("error") = {}

----------------------------------------------------------------------------
(* C19: the persisted snapshot only grows by appending: every value        *)
(* written to the row has the previous value's searches and analyses lists *)
(* as prefixes of its own, and what is in the row is always a prefix of    *)
(* the records the run has produced so far.                                *)

IsPrefix(s, t) == Len(s) <= Len(t) /\ SubSeq(t, 1, Len(s)) = s

PersistedLinks == db.v.research_plan_links.v

C19_SnapshotAppendOnly ==
  /\ [][(db # Null /\ db' # Null) =>
          /\ IsPrefix(PersistedLinks.searches, PersistedLinks'.searches)
          /\ IsPrefix(PersistedLinks.analyses, PersistedLinks'.analyses)]_vars
  /\ [](db # Null =>
          /\ IsPrefix(PersistedLinks.searches, planLinksData.v.searches)
          /\ IsPrefix(PersistedLinks.analyses, planLinksData.v.analyses))

\* a row that has been extended by search records and by analysis records,
\* the run being one analysis ahead of it
C19_Witness ==
  /\ db # Null
  /\ Len(PersistedLinks.searches) = NumSearches
  /\ Len(PersistedLinks.analyses) = 2
  /\ Len(planLinksData.v.analyses) = 3

----------------------------------------------------------------------------
(* C20: the source list of the report holds every URL seen in the search   *)
(* results and in the analyses' key sources exactly once, in the order of  *)
(* first occurrence (search results in search order, then key sources),    *)
(* and each entry shows the title (an empty one as 'Untitled') and the     *)
(* relevance of the first occurrence of its URL (0.8 for a search result,  *)
(* which carries none of its own).                                         *)

\* every occurrence of a source in the run, in order
Occurrences ==
  LET FromSearch(r) == [title |-> r.title, url |-> r.url, relevance |-> 80]
      SearchItems(res) == MapSeq(FromSearch, res.results)
      KeyItems(a) == a.result.key_sources
  IN Concat(MapSeq(SearchItems, searchResults))
       \o Concat(MapSeq(KeyItems, analysisResults))

\* the first occurrence of every URL among the occurrences occ, in order
FirstOccurrencesOf(occ) ==
  LET First(k) == /\ occ[k].url # ""
                  /\ \A j \in 1..(k - 1) : occ[j].url # occ[k].url
      Shown(x) == [title |-> IF x.title = "" THEN "Untitled" ELSE x.title,
                   url |-> x.url, relevance |-> x.relevance]
  IN MapSeq(Shown, FilterIndex(occ, First))

C20_ReportSources ==
  StepFrames("step_start", 12, 12) # {} =>
    allSources = Call(FirstOccurrencesOf, Occurrences)

----------------------------------------------------------------------------
(* C21: when each of the 5 searches returned 4 results and the analyses    *)
(* reported key sources, the source list of the report has at most 20      *)
(* entries and at least as many as the searches returned distinct URLs.    *)

SearchURLs ==
  {searchResults[k].results[j].url :
     k \in 1..Len(searchResults), j \in 1..4}

C21_ReportSourcesBounds ==
  (/\ pc = "collected"
   /\ Len(searchResults) = NumSearches
   /\ \A k \in 1..NumSearches : Len(searchResults[k].results) = 4
   /\ \A k \in 1..Len(analysisResults) :
        Len(analysisResults[k].result.key_sources) >= 1)
  => /\ Len(allSources) <= 20
     /\ Len(allSources) >= Cardinality(SearchURLs)

----------------------------------------------------------------------------
(* C22: folding an error frame stores the frame's message as the error and *)
(* sets the status to "complete"; the progress, the step list, the partial *)
(* report text, the plan and the final sources stay as they were.          *)

C22_ErrorFrameFold ==
  [][(/\ delivered < Len(frames)
      /\ delivered' = delivered + 1
      /\ frames[delivered + 1].type = "error")
     => /\ state'.error = Some(frames[delivered + 1].data.message)
        /\ state'.status = "complete"
        /\ state'.progress = state.progress
        /\ state'.updates = state.updates
        /\ state'.result = state.result
        /\ state'.researchPlan = state.researchPlan
        /\ state'.finalSources = state.finalSources]_vars

\* an error frame folded after report chunks: the text received so far, the
\* twelve steps and the progress of 95 are still there
C22_Witness ==
  /\ delivered > 0
  /\ frames[delivered].type = "error"
  /\ state.error # Null
  /\ state.status = "complete"
  /\ state.result # Null
  /\ state.result.v # <<>>
  /\ state.progress = 95
  /\ Len(state.updates) = 12
  /\ state.researchPlan # Null

----------------------------------------------------------------------------
(* C23: for a run that completed live, the step list rebuilt from the      *)
(* final row equals the step list of the hook that folded all the frames:  *)
(* the same steps in the same order, each with the same title, description *)
(* and status; only the data of a step may differ.                         *)

StepListOf(st) ==
  [k \in 1..Len(st.updates) |->
     [step |-> st.updates[k].step,
      title |-> st.updates[k].title,
      description |-> st.updates[k].description,
      status |-> st.updates[k].status]]

C23_RecoveredStepsEqualLive ==
  (CompletedLive /\ db # Null /\ db.v.research_status = "complete") =>
    LET r == recoverFromDatabase(ResetState, db)
    IN /\ r.ok
       /\ StepListOf(r.state) = StepListOf(state)

----------------------------------------------------------------------------
(* C24: when the row handed to recoverFromDatabase has no search record    *)
(* and no analysis record, the function returns false and the hook's state *)
(* is the one it was.                                                      *)

NoRecords(row) ==
  IF row.research_plan_links = Null THEN TRUE
  ELSE /\ row.research_plan_links.v.searches = <<>>
       /\ row.research_plan_links.v.analyses = <<>>

C24_NothingToRecover ==
  (db # Null /\ NoRecords(db.v)) =>
    LET r == recoverFromDatabase(state, db)
    IN /\ ~r.ok
       /\ r.state = state

----------------------------------------------------------------------------
(* C25: within a run at most one call of an adapter (plan generation, web  *)
(* search, analysis, report streaming) is in flight: a call starts only    *)
(* after the calls started before it have returned or thrown, and the      *)
(* kinds of call follow each other (plan, searches, analyses, report).     *)

\* each adapter call is made right after the step_start frame of its step
CallsStarted == Cardinality(StepFrames("step_start", 1, 12))

\* a returned call has left its result: the plan, a search result, an
\* analysis result, the report_complete frame
CallsReturned ==
  (IF researchPlan # Null THEN 1 ELSE 0) + Len(searchResults)
  + Len(analysisResults) + Cardinality(FramesOf("report_complete"))

\* a call that threw took the run to its catch, which emits the error frame
CallsThrown == IF ErrorEmitted /\ CallsStarted > CallsReturned THEN 1 ELSE 0

CallsInFlight == CallsStarted - CallsReturned - CallsThrown

C25_OneCallInFlight ==
  /\ [](CallsInFlight \in {0, 1})
  /\ [](StepFrames("step_start", 2, 6) # {} => researchPlan # Null)
  /\ [](StepFrames("step_start", 7, 11) # {} => Len(searchResults) = NumSearches)
  /\ [](StepFrames("step_start", 12, 12) # {} => Len(analysisResults) = NumAnalyses)
  /\ [][CallsStarted' > CallsStarted =>
          /\ CallsStarted' = CallsStarted + 1
          /\ CallsStarted = CallsReturned' + CallsThrown']_vars

\* the third search is in flight: two searches have returned, nothing else
\* is pending
C25_Witness ==
  /\ pc = "executeWebSearch"
  /\ Len(searchResults) = 2
  /\ Cardinality(StepFrames("step_start", 2, 6)) = 3
  /\ CallsInFlight = 1

----------------------------------------------------------------------------
(* C26: folding a step_complete frame replaces, in place, the updates that *)
(* carry the frame's step number: they become "completed" with the frame's *)
(* data; the list keeps its length and order, the updates of other steps   *)
(* are untouched, and when no update carries the step number the state is  *)
(* unchanged (nothing is appended).                                        *)

\* the hook reads a well-formed frame of this type in this step
ReadsFrame(type) ==
  /\ pc = "wire"
  /\ delivered < Len(wire)
  /\ delivered' = delivered + 1
  /\ WellFormedLine(wire[delivered + 1])
  /\ JSONparse(wire[delivered + 1].payload).type = type

FrameRead == JSONparse(wire[delivered + 1].payload)

C26_StepCompleteInPlace ==
  [][ReadsFrame("step_complete") =>
       /\ Len(state'.updates) = Len(state.updates)
       /\ \A k \in 1..Len(state.updates) :
            IF state.updates[k].step = FrameRead.data.step
              THEN /\ state'.updates[k].step = state.updates[k].step
                   /\ state'.updates[k].title = state.updates[k].title
                   /\ state'.updates[k].status = "completed"
                   /\ state'.updates[k].data = FrameRead.data.data
              ELSE state'.updates[k] = state.updates[k]
       /\ [state' EXCEPT !.updates = <<>>] = [state EXCEPT !.updates = <<>>]
       /\ UpdatesOfStep(state, FrameRead.data.step) = {} => state' = state]_vars

\* steps 1 and 2 were started and step 2 completed: the second update is
\* completed with the frame's data, the first is still running
C26_Witness ==
  /\ pc = "wire"
  /\ delivered = 3
  /\ WellFormedLine(wire[3])
  /\ JSONparse(wire[3].payload).type = "step_complete"
  /\ Len(state.updates) = 2
  /\ state.updates[1].step = 1
  /\ state.updates[1].status = "running"
  /\ state.updates[2].step = 2
  /\ state.updates[2].status = "completed"
  /\ state.updates[2].data # Null

----------------------------------------------------------------------------
(* C27: folding a report_complete frame makes the frame's full report the  *)
(* report text, whatever chunks were applied before, stores the frame's    *)
(* sources as the final sources, sets the progress to 100 and the status   *)
(* to "complete", and leaves the step list and the plan as they were.      *)

C27_ReportCompleteFold ==
  [][ReadsFrame("report_complete") =>
       /\ state'.result = Some(FrameRead.data.fullReport)
       /\ state'.finalSources = Some(FrameRead.data.sources)
       /\ state'.progress = 100
       /\ state'.status = "complete"
       /\ state'.updates = state.updates
       /\ state'.researchPlan = state.researchPlan]_vars

\* the plan, then a chunk that is not a prefix of the full report, then
\* report_complete: the text is the full report alone
C27_Witness ==
  /\ pc = "wire"
  /\ delivered = 3
  /\ WellFormedLine(wire[1])
  /\ JSONparse(wire[1].payload).type = "research_plan"
  /\ WellFormedLine(wire[2])
  /\ JSONparse(wire[2].payload).type = "report_chunk"
  /\ WellFormedLine(wire[3])
  /\ JSONparse(wire[3].payload).type = "report_complete"
  /\ state.result = Some(<<"final", "report">>)
  /\ state.finalSources # Null
  /\ state.researchPlan # Null
  /\ state.progress = 100

----------------------------------------------------------------------------
(* C28: while the hook folds the frames of a run, its status never moves   *)
(* backwards in the order planning < searching < analyzing < complete, and *)
(* once it is "complete" it stays "complete".                              *)

PhaseRank(status) ==
  CASE status = "planning" -> 0
    [] status = "searching" -> 1
    [] status = "analyzing" -> 2
    [] status = "complete" -> 3

C28_PhaseNeverBackwards ==
  [][PhaseRank(state.status) <= PhaseRank(state'.status)]_vars

\* a run folded to its end: the status went through the steps of every
\* phase and is "complete"
C28_Witness ==
  /\ Drained
  /\ state.status = "complete"
  /\ state.error = Null
  /\ \A s \in 1..12 : UpdatesOfStep(state, s) # {}

----------------------------------------------------------------------------
(* C29: folding a progress frame sets the progress of the hook's state to  *)
(* the frame's value brought into 0..100 (0 below, 100 above), so whatever *)
(* frames are folded the progress is always within 0..100.                 *)

Clamped(value) ==
  IF value < 0 THEN 0 ELSE IF value > 100 THEN 100 ELSE value

C29_ProgressClamped ==
  /\ [](state.progress \in 0..100)
  /\ [][ReadsFrame("progress") =>
          /\ state'.progress = Clamped(FrameRead.data.progress)
          /\ [state' EXCEPT !.progress = 0] = [state EXCEPT !.progress = 0]]_vars

\* a progress frame of -5 and then one of 150 were folded: the progress is 100
C29_Witness ==
  /\ pc = "wire"
  /\ delivered = 2
  /\ WellFormedLine(wire[1])
  /\ JSONparse(wire[1].payload).type = "progress"
  /\ JSONparse(wire[1].payload).data.progress < 0
  /\ WellFormedLine(wire[2])
  /\ JSONparse(wire[2].payload).type = "progress"
  /\ JSONparse(wire[2].payload).data.progress > 100
  /\ state.progress = 100

----------------------------------------------------------------------------
(* C30: the progress emitted after search step s (2..6) is                 *)
(* round(s / totalSteps * 70) with totalSteps = 5 + the number of          *)
(* analyses, so no progress of the search phase exceeds 70; the progress   *)
(* emitted after the i-th analysis is round(70 + i / 5 * 25); after the    *)
(* report the progress is 100.                                             *)

\* v is n / d rounded to the nearest integer, halves upwards
IsRounded(v, n, d) == (2 * v - 1) * d <= 2 * n /\ 2 * n < (2 * v + 1) * d

\* the frame emitted right after frame k is a progress frame of this kind
ProgressAfter(k, Expected(_)) ==
  /\ k < Len(frames)
  /\ frames[k + 1].type = "progress"
  /\ Expected(frames[k + 1].data.progress)

C30_ProgressValues ==
  /\ \A k \in StepFrames("step_complete", 2, 6) :
       LET s == frames[k].data.step
           totalSteps == 5 + Len(researchPlan.v.analyses)
           Expected(v) == IsRounded(v, s * 70, totalSteps)
       IN ProgressAfter(k, Expected)
  /\ \A k \in FramesOf("progress") :
       StepFrames("step_start", 7, 12) \cap 1..k = {} =>
         frames[k].data.progress <= 70
  /\ \A k \in StepFrames("step_complete", 7, 11) :
       LET i == frames[k].data.step - 6
           Expected(v) == IsRounded(v, 70 * 5 + i * 25, 5)
       IN ProgressAfter(k, Expected)
  /\ \A k \in FramesOf("report_complete") :
       LET Expected(v) == v = 100
       IN ProgressAfter(k, Expected)

\* a completed run: the progress frames of the five searches, of the five
\* analyses and of the report were emitted
C30_Witness ==
  /\ RunCompleted
  /\ {14, 21, 28, 35, 42, 75, 80, 85, 90, 95, 100}
       \subseteq {frames[k].data.progress : k \in FramesOf("progress")}
  /\ currentProgress = 100

----------------------------------------------------------------------------
(* C31: for every priority 1..5 of a plan the number of results requested  *)
(* from the search provider is between 4 and 12, and a search with a       *)
(* smaller priority number never requests fewer results than a search      *)
(* with a larger one.                                                      *)

\* the searches of the plan whose call has been made
SearchesCalled ==
  1..(Len(searchResults) + (IF pc = "executeWebSearch" THEN 1 ELSE 0))

\* maxResults of the call of search k
RequestedCount(k) == maxResults(researchPlan.v.searches[k].priority)

C31_RequestedCount ==
  /\ \A k \in SearchesCalled :
       /\ researchPlan.v.searches[k].priority \in 1..5
       /\ RequestedCount(k) >= 4
       /\ RequestedCount(k) <= 12
  /\ \A j, k \in SearchesCalled :
       researchPlan.v.searches[j].priority < researchPlan.v.searches[k].priority
         => RequestedCount(j) >= RequestedCount(k)
  /\ \A k \in 1..Len(searchResults) :
       Len(searchResults[k].results) <= RequestedCount(k)

\* the five searches, of priorities 5, 3, 1, 4, 2, were called and the
\* provider had five results for each: the searches of priority 4 and 5 got
\* four of them, the others five
C31_Witness ==
  /\ Len(searchResults) = NumSearches
  /\ {researchPlan.v.searches[k].priority : k \in 1..NumSearches} = 1..5
  /\ \A k \in 1..NumSearches :
       Len(searchResults[k].results) =
         (IF researchPlan.v.searches[k].priority >= 4 THEN 4 ELSE 5)

----------------------------------------------------------------------------
(* C32: after every search step, unique_domains of the plan links, in      *)
(* memory and in the row, has no duplicates and holds exactly the domains  *)
(* of the links of the search records appended so far.                     *)

DomainsOfLinks(pl) ==
  UNION {{pl.searches[k].links[j].domain : j \in 1..Len(pl.searches[k].links)} :
           k \in 1..Len(pl.searches)}

UniqueDomainsExact(pl) ==
  /\ \A j, k \in 1..Len(pl.unique_domains) :
       j # k => pl.unique_domains[j] # pl.unique_domains[k]
  /\ Range(pl.unique_domains) = DomainsOfLinks(pl)

C32_UniqueDomains ==
  /\ planLinksData # Null => UniqueDomainsExact(planLinksData.v)
  /\ (db # Null /\ db.v.research_plan_links # Null)
       => UniqueDomainsExact(db.v.research_plan_links.v)

\* two searches that returned results on the same three domains and a failed
\* search are recorded and saved: three domains for at least eight links
C32_Witness ==
  /\ db # Null
  /\ db.v.research_plan_links # Null
  /\ Len(db.v.research_plan_links.v.searches) >= 3
  /\ db.v.research_plan_links.v.total_links >= 8
  /\ \E k \in 1..3 : db.v.research_plan_links.v.searches[k].links = <<>>
  /\ Len(db.v.research_plan_links.v.unique_domains) = 3

----------------------------------------------------------------------------
(* C33: an analysis failure is fatal. When analyzeResults throws during    *)
(* the k-th analysis, the error frame is emitted and the run ends: there   *)
(* is no step_complete of that analysis step and no step_start of a later  *)
(* step, and the row keeps the 5 search records and the k-1 analysis       *)
(* records saved before the failure.                                       *)

\* analyzeResults threw in the k-th analysis
AnalysisFailed(k) ==
  /\ ErrorEmitted
  /\ \E e \in FramesOf("error") : frames[e].data.message = "analysis failed"
  /\ Len(analysisResults) = k - 1

----------------------------------------------------------------------------
(* C34: when the report stream has completed in a run that has a message   *)
(* row, the row the run leaves behind has research_status "complete",      *)
(* research_progress 100, completion_rate 100, the full report sent in     *)
(* report_complete as content, and citation sources with exactly the URLs  *)
(* of the report's sources, in the same order.                             *)

URLOf(source) == source.url

C34_FinalRecord ==
  (pc = "done" /\ FramesOf("report_complete") # {} /\ assistantMessageId # Null) =>
    \A k \in FramesOf("report_complete") :
      /\ db # Null
      /\ db.v.research_status = "complete"
      /\ db.v.research_progress = 100
      /\ db.v.research_plan_links.v.completion_rate = 100
      /\ db.v.content = frames[k].data.fullReport
      /\ db.v.citation_sources # Null
      /\ MapSeq(URLOf, db.v.citation_sources.v)
           = MapSeq(URLOf, frames[k].data.sources)

----------------------------------------------------------------------------
(* C35: the payloads of the report_chunk frames of a run, concatenated in  *)
(* the order of emission, are the fullReport of the run's report_complete  *)
(* frame, so the report text of the hook is the same just before and just  *)
(* after it folds report_complete.                                         *)

\* the text of the report_chunk frames emitted so far
ChunkText ==
  LET IsChunk(k) == frames[k].type = "report_chunk"
      Payload(frame) == frame.data.chunk
  IN Concat(MapSeq(Payload, FilterIndex(frames, IsChunk)))

\* prev.result || ''
TextOf(result) == IF result = Null THEN <<>> ELSE result.v

C35_ChunksMakeFullReport ==
  /\ [](\A k \in FramesOf("report_complete") :
          frames[k].data.fullReport = ChunkText)
  /\ [][(/\ delivered < Len(frames)
         /\ delivered' = delivered + 1
         /\ frames[delivered + 1].type = "report_complete")
        => TextOf(state'.result) = TextOf(state.result)]_vars

\* report_complete was folded after two chunks
C35_Witness ==
  /\ delivered > 0
  /\ frames[delivered].type = "report_complete"
  /\ Cardinality(FramesOf("report_chunk")) = 2
  /\ state.result # Null
  /\ Len(state.result.v) = 2
  /\ state.result.v = ChunkText

----------------------------------------------------------------------------
(* C36: a failed write never shows in the stream. A run whose insert       *)
(* failed (no message id, no later write) emits the frames the run with    *)
(* all writes succeeding emits: after report_complete these are progress   *)
(* 100 and status_change, and then the error frame exactly when a source   *)
(* of the report has a URL that new URL rejects, which is what the run     *)
(* with its row emits.                                                     *)

\* the types of the frames emitted after the report_complete frame
TypesAfterReportComplete ==
  LET After(k) == \E j \in FramesOf("report_complete") : j < k
      TypeOf(frame) == frame.type
  IN MapSeq(TypeOf, FilterIndex(frames, After))

\* what a run emits after report_complete when its writes succeed
TypesWhenWritesSucceed ==
  <<"progress", "status_change">>
    \o (IF CitationsThrow(allSources) THEN <<"error">> ELSE <<>>)

C36_StreamIgnoresPersistence ==
  (pc = "done" /\ FramesOf("report_complete") # {}) =>
    TypesAfterReportComplete = TypesWhenWritesSucceed

----------------------------------------------------------------------------
(* C37: every run emits exactly one terminal frame, one report_complete or *)
(* one error: a finished run has one of them and not both, and no error    *)
(* frame is ever emitted after a report_complete frame.                    *)

TerminalFrames == FramesOf("report_complete") \cup FramesOf("error")

C37_OneTerminalFrame ==
  /\ Cardinality(TerminalFrames) <= 1
  /\ pc = "done" => Cardinality(TerminalFrames) = 1
  /\ \A j \in FramesOf("report_complete"), k \in FramesOf("error") : k < j

----------------------------------------------------------------------------
(* C38: once the server has closed the stream of a run and the hook has    *)
(* folded every frame of it, the hook's state is inactive and its status   *)
(* is "complete".                                                          *)

C38_InactiveAfterStream ==
  Drained => /\ ~state.isActive
             /\ state.status = "complete"

\* a run that failed in an analysis, closed and folded to its last frame
C38_Witness ==
  /\ Drained
  /\ FramesOf("report_complete") = {}
  /\ StepFrames("step_start", 7, 11) # {}
  /\ state.error # Null
  /\ ~state.isActive
  /\ state.status = "complete"

----------------------------------------------------------------------------
(* C39: however the text of the response body is cut into chunks, also in  *)
(* the middle of a line, the read loop passes to handleServerEvent exactly *)
(* the frames the orchestrator sent, in their order: none lost, none       *)
(* twice, none out of order.                                               *)

C39_ChunkingIndependent ==
  pc \in {"read", "readDone"} =>
    /\ IsPrefix(handed, frames)
    /\ state = FoldFrames(ResetState, handed)
    /\ (unread = <<>>) => handed = frames

\* two frames were passed on and the reader stopped in the middle of the
\* JSON text of the third
C39_Witness ==
  /\ pc = "read"
  /\ Len(frames) = 3
  /\ Len(handed) = 2
  /\ Len(buffer) = 3
  /\ unread # <<>>

----------------------------------------------------------------------------
(* C40: after stopDeepSearch or resetDeepSearch was called while the       *)
(* stream is being read, no later frame changes the hook's state: after a  *)
(* reset the state stays the initial one, after a stop the progress, the   *)
(* status, the step list and the report text stay as they were.            *)

C40_NoChangeAfterStop ==
  [][(stopped # "no" /\ delivered' = delivered + 1) =>
       IF stopped = "reset"
         THEN state' = state
         ELSE /\ state'.progress = state.progress
              /\ state'.status = state.status
              /\ state'.updates = state.updates
              /\ state'.result = state.result]_vars

====
